---- MODULE Spec2Model ----
(***************************************************************************)
(* Model of the provisioning reconciler of dstoolkit-mlops-v2.              *)
(*                                                                         *)
(* Part 1: mlops/common/get_compute.py.  get_compute() reconciles the      *)
(* compute cluster (_get_or_create_compute_target), grants two roles to    *)
(* the compute identity (_assign_storage_role) and one role to the         *)
(* workspace identity (inline in get_compute).  The control plane (Azure   *)
(* ML / ARM and the `az role assignment` CLI) is the environment: its      *)
(* answers are drawn nondeterministically, and an external actor may       *)
(* mutate the same named compute and the same role bindings.               *)
(*                                                                         *)
(* The environment:                                                        *)
(*  - client.compute.get returns the resource as it is, or raises          *)
(*    (NotFound when it is absent, any other failure at any time);         *)
(*  - begin_create_or_update is rejected (Conflict while another actor's   *)
(*    mutation is in progress, any other failure at any time) or accepted; *)
(*    an accepted operation puts the resource in a non-terminal state      *)
(*    (Creating when it was absent, Updating otherwise) and resolves to a  *)
(*    terminal state; .result() returns the resource when that state is    *)
(*    Succeeded and raises the provider's error otherwise;                 *)
(*  - the principal_id of an identity enabled on an existing compute       *)
(*    becomes available some time after the update succeeded;              *)
(*  - az role assignment list shows an existing assignment, or nothing     *)
(*    (absent or not yet visible), or fails; az role assignment create     *)
(*    answers Ok, RoleAssignmentExists or another failure.                 *)
(***************************************************************************)
EXTENDS Naturals, Sequences, FiniteSets

\* ---- bounds ------------------------------------------------------------
MaxRuns == 2        \* sequential invocations of get_compute
MaxExt  == 2        \* mutations made by the external actor

\* ---- program constants -------------------------------------------------
PropagationWait == 120    \* get_compute.py:82, 122, 247
ExistsWait      == 30     \* get_compute.py:92, 132

\* ---- data model --------------------------------------------------------
Terminal == {"Succeeded", "Failed", "Canceled"}

\* identity of a compute: none, SystemAssigned without principal_id yet,
\* SystemAssigned with principal_id
Identities == {"None", "Pending", "Principal"}

\* the three role grants of get_compute, in program order
Grants == {1, 2, 3}

Binding(g) ==
    IF g = 1 THEN <<"compute", "Storage Blob Data Contributor", "storage">>
    ELSE IF g = 2 THEN <<"compute", "AzureML Data Scientist", "workspace">>
    ELSE <<"workspace", "Storage Blob Data Contributor", "storage">>

NoObj == [state |-> "none", identity |-> "None"]
NoErr == [kind |-> "none", at |-> "none", state |-> "none", text |-> {}]

\* what the text of a provider error may mention; the text is opaque to the
\* program, which passes it on unchanged
Texts == SUBSET {"resource", "state"}

VARIABLES
    cp_compute,     \* control plane: the named compute [state, identity]
    cp_inflight,    \* who has a mutation in progress on it: none|core|ext
    cp_bindings,    \* control plane: set of role bindings
    ws_identity,    \* the workspace has a managed identity with principal_id
    extCount,       \* mutations made by the external actor so far
    run,            \* number of the current invocation of get_compute
    pc,             \* position of get_compute
    g,              \* the role grant in progress (1..3), 0 before
    lookup,         \* outcome of client.compute.get at line 153
    lookupObj,      \* the object that get returned at line 153
    compute_object, \* local compute_object
    cuCalls,        \* begin_create_or_update calls issued in this invocation
    created,        \* terminal state the create of line 185 resolved to
    raced,          \* the external actor created the compute after the lookup
    grantLog,       \* per grant: calls and sleeps of this invocation
    createCalls,    \* per grant: create-binding calls over all invocations
    okCreates,      \* per grant: create-binding calls that returned Ok
    grantDone,      \* grants that ended without raising in this invocation
    grantsOk,       \* per grant: invocations in which it ended without raising
    err             \* the exception that left get_compute

computeVars ==
    <<cp_compute, cp_inflight, cp_bindings, ws_identity, extCount, run, pc,
      g, lookup, lookupObj, compute_object, cuCalls, created, raced,
      grantLog, createCalls, okCreates, grantDone, grantsOk, err>>

cpVars    == <<cp_compute, cp_inflight, cp_bindings, ws_identity, extCount>>
grantVars == <<grantLog, createCalls, okCreates, grantDone, grantsOk>>

\* state of the retry executors (create_with_retry, deploy_with_retry)
VARIABLES
    r_fn,           \* which executor runs
    r_max,          \* max_retries
    r_delay,        \* initial_delay
    r_pc,           \* position of the executor
    r_attempt,      \* loop variable attempt
    r_results,      \* outcome of each invocation of the operation so far
    r_sleeps,       \* the delays slept so far
    r_out           \* how the executor ended

retryVars == <<r_fn, r_max, r_delay, r_pc, r_attempt, r_results, r_sleeps, r_out>>

\* state of wait_for_endpoint_ready and of the endpoint it reads
VARIABLES
    cp_endpoint,    \* control plane: provisioning state of the endpoint
    epChanges,      \* changes of the endpoint made by other actors so far
    p_pc,           \* position of wait_for_endpoint_ready
    p_max,          \* max_wait
    p_elapsed,      \* time.time() - start_time, in seconds
    p_polls,        \* reads of the endpoint so far
    p_sleeps,       \* time.sleep(30) calls so far
    p_last,         \* what the last read showed
    p_stuck,        \* every read so far showed Creating
    p_out           \* how the wait ended

pollVars == <<cp_endpoint, epChanges, p_pc, p_max, p_elapsed, p_polls, p_sleeps,
              p_last, p_stuck, p_out>>

\* state of the two scripts (main of provision_batch_endpoint.py, main of
\* provision_batch_deployment.py) and of the deployment they provision
VARIABLES
    cp_deployment,  \* control plane: provisioning state of the deployment
    cp_default,     \* control plane: defaults.deployment_name of the endpoint
    pl_pc,          \* position in the scripts
    pl_log,         \* the steps started so far, in order
    pl_err,         \* the exception that left main
    pl_epSeen,      \* endpoint object of line 181: the changes made before it was read
    pl_absent       \* compute, bindings, endpoint and deployment were absent at the start

pipeVars == <<cp_deployment, cp_default, pl_pc, pl_log, pl_err, pl_epSeen,
              pl_absent>>

\* two pipeline invocations that run the same role grant at the same time
VARIABLES
    cp_assignments, \* control plane: role assignments stored for the tuple
    cg_pc,          \* position of each invocation in the grant
    cg_log          \* the calls and sleeps of each invocation, in order

grantRaceVars == <<cp_assignments, cg_pc, cg_log>>

\* two invocations of the deployment script on one endpoint
VARIABLES
    cp_deployments, \* control plane: names of the deployments of the endpoint
    cp_defaultName, \* control plane: defaults.deployment_name of the endpoint
    cp_ops,         \* control plane: operations in progress, [by, target]
    cd_pc,          \* position of each invocation in main
    cd_attempt,     \* loop variable attempt of its retry executor
    cd_polls,       \* reads made by its wait_for_endpoint_ready
    cd_created      \* its deploy_with_retry(deployment) has returned

deployRaceVars == <<cp_deployments, cp_defaultName, cp_ops, cd_pc, cd_attempt,
                    cd_polls, cd_created>>

duoVars == <<grantRaceVars, deployRaceVars>>

vars == <<computeVars, retryVars, pollVars, pipeVars, duoVars>>

\* what the actions of get_compute leave alone
otherVars == <<retryVars, pollVars, pipeVars, duoVars>>

\* the invocations that run at the same time
Invocations == {1, 2}

\* no invocation runs the grant at the same time as another
GrantRaceIdle ==
    /\ cp_assignments = 0
    /\ cg_pc = [i \in Invocations |-> "idle"]
    /\ cg_log = [i \in Invocations |-> <<>>]

\* no invocation runs the deployment script at the same time as another
DeployRaceIdle ==
    /\ cp_deployments = {}
    /\ cp_defaultName = "none"
    /\ cp_ops = {}
    /\ cd_pc = [i \in Invocations |-> "idle"]
    /\ cd_attempt = [i \in Invocations |-> 0]
    /\ cd_polls = [i \in Invocations |-> 0]
    /\ cd_created = [i \in Invocations |-> FALSE]

DuoIdle == GrantRaceIdle /\ DeployRaceIdle

NoOut == [kind |-> "none", state |-> "none", msg |-> "none"]

\* no script is running
PipeIdle ==
    /\ cp_deployment = "NotFound"
    /\ cp_default = "none"
    /\ pl_pc = "idle"
    /\ pl_log = <<>>
    /\ pl_err = NoOut
    /\ pl_epSeen = 0
    /\ pl_absent = FALSE

\* the retry executor is not running
RetryIdle ==
    /\ r_fn = "none"
    /\ r_max = 0
    /\ r_delay = 0
    /\ r_pc = "idle"
    /\ r_attempt = 0
    /\ r_results = <<>>
    /\ r_sleeps = <<>>
    /\ r_out = NoOut

\* wait_for_endpoint_ready is not running
PollIdle ==
    /\ cp_endpoint = "NotFound"
    /\ epChanges = 0
    /\ p_pc = "idle"
    /\ p_max = 0
    /\ p_elapsed = 0
    /\ p_polls = 0
    /\ p_sleeps = 0
    /\ p_last = "none"
    /\ p_stuck = TRUE
    /\ p_out = NoOut

\* positions inside _get_or_create_compute_target
GocPcs == {"get", "attach", "attach_result", "sleep_id", "reget",
           "create", "create_result"}

Snapshot == [state |-> cp_compute.state, identity |-> cp_compute.identity]

HasPrincipal(obj) == obj.identity = "Principal"

\* errors client.compute.get can raise in the current control-plane state
GetErrors ==
    (IF cp_compute.state = "NotFound" THEN {"NotFound"} ELSE {}) \cup {"Other"}

\* errors begin_create_or_update can raise when the request is rejected
BeginErrors ==
    (IF cp_inflight = "ext" THEN {"Conflict"} ELSE {}) \cup {"Other"}

\* mutant: an update of an existing resource creates it anew
AcceptedRecreates ==
    [state    |-> "Creating",
     identity |-> IF cp_compute.identity = "Principal" THEN "Principal" ELSE "Pending"]

\* the control plane accepts a create_or_update carrying a SystemAssigned
\* identity: the resource enters a non-terminal state
Accepted ==
    [state    |-> IF cp_compute.state = "NotFound" THEN "Creating" ELSE "Updating",
     identity |-> IF cp_compute.identity = "Principal" THEN "Principal" ELSE "Pending"]

ComputeInit ==
    /\ cp_compute \in {[state |-> "NotFound", identity |-> "None"],
                       [state |-> "Succeeded", identity |-> "None"],
                       [state |-> "Succeeded", identity |-> "Principal"]}
    /\ cp_inflight = "none"
    /\ cp_bindings = {}
    /\ ws_identity \in BOOLEAN
    /\ extCount = 0
    /\ run = 1
    /\ pc = "get"
    /\ g = 0
    /\ lookup = "none"
    /\ lookupObj = NoObj
    /\ compute_object = NoObj
    /\ cuCalls = <<>>
    /\ created = "none"
    /\ raced = FALSE
    /\ grantLog = [x \in Grants |-> <<>>]
    /\ createCalls = [x \in Grants |-> 0]
    /\ okCreates = [x \in Grants |-> 0]
    /\ grantDone = {}
    /\ grantsOk = [x \in Grants |-> 0]
    /\ err = NoErr

Init == ComputeInit /\ RetryIdle /\ PollIdle /\ PipeIdle /\ DuoIdle

\* an exception leaves get_compute (lines 264-270 print it and re-raise it
\* unchanged)
Raise(kind, state, text) ==
    /\ pc' = "failed"
    /\ err' = [kind |-> kind, at |-> pc, state |-> state, text |-> text]

\* ---- _get_or_create_compute_target -------------------------------------

\* mutant: the identity is enabled again although the compute has one
GetComputeAlwaysAttach ==
    /\ pc = "get"
    /\ \/ /\ cp_compute.state # "NotFound"
          /\ lookup' = "found"
          /\ lookupObj' = Snapshot
          /\ compute_object' = Snapshot
          /\ pc' = "attach"
       \/ /\ \E e \in GetErrors : lookup' = e
          /\ pc' = "create"
          /\ UNCHANGED <<lookupObj, compute_object>>
    /\ UNCHANGED <<cpVars, run, g, cuCalls, created, raced, grantVars, err>>
    /\ UNCHANGED otherVars

\* line 153: compute_object = client.compute.get(cluster_name)
GetCompute ==
    /\ pc = "get"
    /\ \/ /\ cp_compute.state # "NotFound"
          /\ lookup' = "found"
          /\ lookupObj' = Snapshot
          /\ compute_object' = Snapshot
          /\ pc' = IF HasPrincipal(Snapshot) THEN "role_guard" ELSE "attach"
       \/ /\ \E e \in GetErrors : lookup' = e
          /\ pc' = "create"
          /\ UNCHANGED <<lookupObj, compute_object>>
    /\ UNCHANGED <<cpVars, run, g, cuCalls, created, raced, grantVars, err>>
    /\ UNCHANGED otherVars

\* lines 158-159: begin_create_or_update(compute_object) with the identity set
AttachIdentity ==
    /\ pc = "attach"
    /\ cuCalls' = Append(cuCalls, "attach")
    /\ \/ /\ cp_inflight = "none"
          /\ cp_compute' = Accepted
          /\ cp_inflight' = "core"
          /\ pc' = "attach_result"
       \/ /\ BeginErrors # {}
          /\ pc' = "create"             \* caught by `except Exception`, line 173
          /\ UNCHANGED <<cp_compute, cp_inflight>>
    /\ UNCHANGED <<cp_bindings, ws_identity, extCount, run, g, lookup, lookupObj,
                   compute_object, created, raced, grantVars, err>>
    /\ UNCHANGED otherVars

\* line 159: .result() of the identity update
AttachResult ==
    /\ pc = "attach_result"
    /\ \E t \in Terminal :
        /\ cp_compute' = [cp_compute EXCEPT !.state = t]
        /\ cp_inflight' = "none"
        /\ IF t = "Succeeded"
           THEN /\ compute_object' = [state |-> t, identity |-> cp_compute.identity]
                /\ pc' = "sleep_id"
           ELSE /\ pc' = "create"       \* caught by `except Exception`, line 173
                /\ UNCHANGED compute_object
    /\ UNCHANGED <<cp_bindings, ws_identity, extCount, run, g, lookup, lookupObj,
                   cuCalls, created, raced, grantVars, err>>
    /\ UNCHANGED otherVars

\* line 164: time.sleep(30)
SleepIdentity ==
    /\ pc = "sleep_id"
    /\ pc' = "reget"
    /\ UNCHANGED <<cpVars, run, g, lookup, lookupObj, compute_object, cuCalls,
                   created, raced, grantVars, err>>
    /\ UNCHANGED otherVars

\* lines 167-172: refresh the object, warn when principal_id is missing, return
RefreshCompute ==
    /\ pc = "reget"
    /\ \/ /\ cp_compute.state # "NotFound"
          /\ compute_object' = Snapshot
          /\ pc' = "role_guard"
       \/ /\ GetErrors # {}
          /\ pc' = "create"             \* caught by `except Exception`, line 173
          /\ UNCHANGED compute_object
    /\ UNCHANGED <<cpVars, run, g, lookup, lookupObj, cuCalls, created, raced,
                   grantVars, err>>
    /\ UNCHANGED otherVars

\* lines 174-185: begin_create_or_update(AmlCompute(..., identity=SystemAssigned))
CreateCompute ==
    /\ pc = "create"
    /\ cuCalls' = Append(cuCalls, "create")
    /\ \/ /\ cp_inflight = "none"
          /\ cp_compute' = Accepted
          /\ cp_inflight' = "core"
          /\ pc' = "create_result"
          /\ UNCHANGED err
       \/ /\ \E e \in BeginErrors, tx \in Texts : Raise(e, "none", tx)
          /\ UNCHANGED <<cp_compute, cp_inflight>>
    /\ UNCHANGED <<cp_bindings, ws_identity, extCount, run, g, lookup, lookupObj,
                   compute_object, created, raced, grantVars>>
    /\ UNCHANGED otherVars

\* mutant: the result of the create is returned whatever state it reached
CreateResultUnchecked ==
    /\ pc = "create_result"
    /\ \E t \in Terminal :
        /\ created' = t
        /\ cp_inflight' = "none"
        /\ cp_compute' = [state |-> t, identity |-> "Principal"]
        /\ compute_object' = [state |-> t, identity |-> "Principal"]
        /\ pc' = "role_guard"
    /\ UNCHANGED <<cp_bindings, ws_identity, extCount, run, g, lookup, lookupObj,
                   cuCalls, raced, grantVars, err>>
    /\ UNCHANGED otherVars

\* line 185: return ....result(); the poller returns the resource when the
\* operation succeeded and raises the provider's error otherwise
CreateResult ==
    /\ pc = "create_result"
    /\ \E t \in Terminal :
        /\ created' = t
        /\ cp_inflight' = "none"
        /\ IF t = "Succeeded"
           THEN /\ cp_compute' = [state |-> t, identity |-> "Principal"]
                /\ compute_object' = [state |-> t, identity |-> "Principal"]
                /\ pc' = "role_guard"
                /\ UNCHANGED err
           ELSE /\ cp_compute' = [cp_compute EXCEPT !.state = t]
                /\ \E tx \in Texts : Raise("OperationFailed", t, tx)
                /\ UNCHANGED compute_object
    /\ UNCHANGED <<cp_bindings, ws_identity, extCount, run, g, lookup, lookupObj,
                   cuCalls, raced, grantVars>>
    /\ UNCHANGED otherVars

\* ---- role grants: _assign_storage_role and the tail of get_compute -------

Event(op, res, secs) == [op |-> op, res |-> res, secs |-> secs]

Log(x, e) == [grantLog EXCEPT ![x] = Append(@, e)]

\* what `az role assignment list` answers for a binding: the assignment, an
\* empty list (absent, or not yet visible), or a failure of the command
ListOutcomes(x) ==
    (IF Binding(x) \in cp_bindings THEN {"listed"} ELSE {}) \cup {"empty", "error"}

\* mutant: the check never reports an assignment
CheckRoleAssignmentNever(r) == FALSE

\* _check_role_assignment, lines 18-40: True only when the list is non-empty;
\* every exception is caught and answered with False
CheckRoleAssignment(r) == r = "listed"

\* seconds slept after a create that failed with RoleAssignmentExists:
\* lines 92 and 132 sleep, lines 254-255 do not
WaitAfterExists(x) == IF x \in {1, 2} THEN ExistsWait ELSE 0

\* control passes to what follows grant x
AfterGrant(x) ==
    /\ pc' = IF x = 1 THEN "check" ELSE IF x = 2 THEN "ws_get2" ELSE "done"
    /\ g' = IF x = 1 THEN 2 ELSE x
    /\ grantDone' = grantDone \cup {x}
    /\ grantsOk' = [grantsOk EXCEPT ![x] = @ + 1]

\* mutant: the grants start whatever the identity
RoleGuardSkipped ==
    /\ pc = "role_guard"
    /\ pc' = "ws_get1"
    /\ UNCHANGED <<cpVars, run, g, lookup, lookupObj, compute_object, cuCalls,
                   created, raced, grantVars, err>>
    /\ UNCHANGED otherVars

\* lines 45-51: the compute must carry a principal_id
RoleGuard ==
    /\ pc = "role_guard"
    /\ IF HasPrincipal(compute_object)
       THEN pc' = "ws_get1" /\ UNCHANGED err
       ELSE Raise("ValueError", "none", {"resource"})
    /\ UNCHANGED <<cpVars, run, g, lookup, lookupObj, compute_object, cuCalls,
                   created, raced, grantVars>>
    /\ UNCHANGED otherVars

\* lines 55-56: ws = client.workspaces.get(workspace_name)
WorkspaceGet1 ==
    /\ pc = "ws_get1"
    /\ \/ pc' = "check" /\ g' = 1 /\ UNCHANGED err
       \/ (\E tx \in Texts : Raise("Other", "none", tx)) /\ UNCHANGED g
    /\ UNCHANGED <<cpVars, run, lookup, lookupObj, compute_object, cuCalls,
                   created, raced, grantVars>>
    /\ UNCHANGED otherVars

\* mutant: the create is issued although the read showed the binding
CheckRoleNoSkip ==
    /\ pc = "check"
    /\ \E r \in ListOutcomes(g) :
        grantLog' = Log(g, Event("list", r, 0))
    /\ pc' = "role_create"
    /\ UNCHANGED <<cpVars, run, g, lookup, lookupObj, compute_object, cuCalls,
                   created, raced, createCalls, okCreates, grantDone, grantsOk,
                   err>>
    /\ UNCHANGED otherVars

\* lines 62-64, 102-104, 227-228: read the binding, skip when it is present
CheckRole ==
    /\ pc = "check"
    /\ \E r \in ListOutcomes(g) :
        /\ grantLog' = Log(g, Event("list", r, 0))
        /\ IF CheckRoleAssignment(r)
           THEN AfterGrant(g)
           ELSE pc' = "role_create" /\ UNCHANGED <<g, grantDone, grantsOk>>
    /\ UNCHANGED <<cpVars, run, lookup, lookupObj, compute_object, cuCalls,
                   created, raced, createCalls, okCreates, err>>
    /\ UNCHANGED otherVars

\* mutant: RoleAssignmentExists is raised like any other failure
RoleCreateExistsFatal ==
    /\ pc = "role_create"
    /\ createCalls' = [createCalls EXCEPT ![g] = @ + 1]
    /\ \/ /\ Binding(g) \notin cp_bindings
          /\ cp_bindings' = cp_bindings \cup {Binding(g)}
          /\ okCreates' = [okCreates EXCEPT ![g] = @ + 1]
          /\ grantLog' = Log(g, Event("create", "Ok", 0))
          /\ pc' = "sleep_ok"
          /\ UNCHANGED <<g, grantDone, grantsOk, err>>
       \/ /\ \E r \in (IF Binding(g) \in cp_bindings
                       THEN {"AlreadyExists", "Other"} ELSE {"Other"}) :
                grantLog' = Log(g, Event("create", r, 0))
          /\ \E tx \in Texts : Raise("Exception", "none", tx)
          /\ UNCHANGED <<cp_bindings, okCreates, g, grantDone, grantsOk>>
    /\ UNCHANGED <<cp_compute, cp_inflight, ws_identity, extCount, run, lookup,
                   lookupObj, compute_object, cuCalls, created, raced>>
    /\ UNCHANGED otherVars

\* lines 65-95, 105-135, 231-258: az role assignment create
RoleCreate ==
    /\ pc = "role_create"
    /\ createCalls' = [createCalls EXCEPT ![g] = @ + 1]
    /\ \/ /\ Binding(g) \notin cp_bindings
          /\ cp_bindings' = cp_bindings \cup {Binding(g)}
          /\ okCreates' = [okCreates EXCEPT ![g] = @ + 1]
          /\ grantLog' = Log(g, Event("create", "Ok", 0))
          /\ pc' = "sleep_ok"
          /\ UNCHANGED <<g, grantDone, grantsOk, err>>
       \/ /\ Binding(g) \in cp_bindings
          /\ grantLog' = Log(g, Event("create", "AlreadyExists", 0))
          /\ IF WaitAfterExists(g) > 0
             THEN pc' = "sleep_exists" /\ UNCHANGED <<g, grantDone, grantsOk>>
             ELSE AfterGrant(g)
          /\ UNCHANGED <<cp_bindings, okCreates, err>>
       \/ /\ grantLog' = Log(g, Event("create", "Other", 0))
          /\ \E tx \in Texts : Raise("Exception", "none", tx)
          /\ UNCHANGED <<cp_bindings, okCreates, g, grantDone, grantsOk>>
    /\ UNCHANGED <<cp_compute, cp_inflight, ws_identity, extCount, run, lookup,
                   lookupObj, compute_object, cuCalls, created, raced>>
    /\ UNCHANGED otherVars

\* mutant: the propagation wait is as short as the wait after AlreadyExists
SleepPropagationShort ==
    /\ pc = "sleep_ok"
    /\ grantLog' = Log(g, Event("sleep", "Ok", ExistsWait))
    /\ pc' = "verify"
    /\ UNCHANGED <<cpVars, run, g, lookup, lookupObj, compute_object, cuCalls,
                   created, raced, createCalls, okCreates, grantDone, grantsOk,
                   err>>
    /\ UNCHANGED otherVars

\* lines 81-82, 121-122, 246-247: time.sleep(120) after a clean create
SleepPropagation ==
    /\ pc = "sleep_ok"
    /\ grantLog' = Log(g, Event("sleep", "Ok", PropagationWait))
    /\ pc' = "verify"
    /\ UNCHANGED <<cpVars, run, g, lookup, lookupObj, compute_object, cuCalls,
                   created, raced, createCalls, okCreates, grantDone, grantsOk,
                   err>>
    /\ UNCHANGED otherVars

\* mutant: a binding that cannot be verified is an error
VerifyRoleFatal ==
    /\ pc = "verify"
    /\ \E r \in ListOutcomes(g) :
        /\ grantLog' = Log(g, Event("verify", r, 0))
        /\ IF CheckRoleAssignment(r)
           THEN AfterGrant(g) /\ UNCHANGED err
           ELSE /\ Raise("Exception", "none", {})
                /\ UNCHANGED <<g, grantDone, grantsOk>>
    /\ UNCHANGED <<cpVars, run, lookup, lookupObj, compute_object, cuCalls,
                   created, raced, createCalls, okCreates>>
    /\ UNCHANGED otherVars

\* lines 84-87, 124-127, 249-252: one verification read; when it does not
\* show the binding a WARNING is printed and the grant ends normally
VerifyRole ==
    /\ pc = "verify"
    /\ \E r \in ListOutcomes(g) :
        grantLog' = [grantLog EXCEPT ![g] =
                        IF CheckRoleAssignment(r)
                        THEN Append(@, Event("verify", r, 0))
                        ELSE Append(Append(@, Event("verify", r, 0)),
                                    Event("warn", "unverified", 0))]
    /\ AfterGrant(g)
    /\ UNCHANGED <<cpVars, run, lookup, lookupObj, compute_object, cuCalls,
                   created, raced, createCalls, okCreates, err>>
    /\ UNCHANGED otherVars

\* lines 91-92, 131-132: time.sleep(30) after RoleAssignmentExists
SleepExists ==
    /\ pc = "sleep_exists"
    /\ grantLog' = Log(g, Event("sleep", "AlreadyExists", WaitAfterExists(g)))
    /\ AfterGrant(g)
    /\ UNCHANGED <<cpVars, run, lookup, lookupObj, compute_object, cuCalls,
                   created, raced, createCalls, okCreates, err>>
    /\ UNCHANGED otherVars

\* lines 222-223, 259-262: the workspace identity, if there is one
WorkspaceGet2 ==
    /\ pc = "ws_get2"
    /\ \/ /\ IF ws_identity
             THEN pc' = "check" /\ g' = 3
             ELSE pc' = "done" /\ UNCHANGED g
          /\ UNCHANGED err
       \/ (\E tx \in Texts : Raise("Other", "none", tx)) /\ UNCHANGED g
    /\ UNCHANGED <<cpVars, run, lookup, lookupObj, compute_object, cuCalls,
                   created, raced, grantVars>>
    /\ UNCHANGED otherVars

\* ---- the caller: get_compute is invoked again ---------------------------
Reinvoke ==
    /\ pc \in {"done", "failed"}
    /\ run < MaxRuns
    /\ run' = run + 1
    /\ pc' = "get"
    /\ g' = 0
    /\ lookup' = "none"
    /\ lookupObj' = NoObj
    /\ compute_object' = NoObj
    /\ cuCalls' = <<>>
    /\ created' = "none"
    /\ raced' = FALSE
    /\ grantLog' = [x \in Grants |-> <<>>]
    /\ grantDone' = {}
    /\ err' = NoErr
    /\ UNCHANGED <<cpVars, createCalls, okCreates, grantsOk>>
    /\ UNCHANGED otherVars

\* ---- the environment ----------------------------------------------------

\* the control plane makes the principal_id of an enabled identity available
IdentityProvisioned ==
    /\ cp_compute.state = "Succeeded"
    /\ cp_compute.identity = "Pending"
    /\ cp_compute' = [cp_compute EXCEPT !.identity = "Principal"]
    /\ UNCHANGED <<cp_inflight, cp_bindings, ws_identity, extCount, run, pc, g,
                   lookup, lookupObj, compute_object, cuCalls, created, raced,
                   grantVars, err>>
    /\ UNCHANGED otherVars

\* another actor creates the compute of the same name
ExtCreateCompute ==
    /\ extCount < MaxExt
    /\ pc \notin {"done", "failed"}
    /\ cp_compute.state = "NotFound"
    /\ cp_inflight = "none"
    /\ cp_compute' = [state |-> "Creating", identity |-> "Pending"]
    /\ cp_inflight' = "ext"
    /\ extCount' = extCount + 1
    /\ raced' = (raced \/ (pc = "create" /\ lookup = "NotFound"))
    /\ UNCHANGED <<cp_bindings, ws_identity, run, pc, g, lookup, lookupObj,
                   compute_object, cuCalls, created, grantVars, err>>
    /\ UNCHANGED otherVars

\* the other actor's operation reaches a terminal state
ExtResolve ==
    /\ cp_inflight = "ext"
    /\ \E t \in Terminal : cp_compute' = [cp_compute EXCEPT !.state = t]
    /\ cp_inflight' = "none"
    /\ UNCHANGED <<cp_bindings, ws_identity, extCount, run, pc, g, lookup,
                   lookupObj, compute_object, cuCalls, created, raced,
                   grantVars, err>>
    /\ UNCHANGED otherVars

\* another actor creates the role binding that grant x is about
ExtGrant(x) ==
    /\ extCount < MaxExt
    /\ pc \in {"check", "role_create"}
    /\ g = x
    /\ Binding(x) \notin cp_bindings
    /\ cp_bindings' = cp_bindings \cup {Binding(x)}
    /\ extCount' = extCount + 1
    /\ UNCHANGED <<cp_compute, cp_inflight, ws_identity, run, pc, g, lookup,
                   lookupObj, compute_object, cuCalls, created, raced,
                   grantVars, err>>
    /\ UNCHANGED otherVars

Next ==
    \/ GetCompute
    \/ AttachIdentity
    \/ AttachResult
    \/ SleepIdentity
    \/ RefreshCompute
    \/ CreateCompute
    \/ CreateResult
    \/ RoleGuard
    \/ WorkspaceGet1
    \/ CheckRole
    \/ RoleCreate
    \/ SleepPropagation
    \/ VerifyRole
    \/ SleepExists
    \/ WorkspaceGet2
    \/ Reinvoke
    \/ IdentityProvisioned
    \/ ExtCreateCompute
    \/ ExtResolve
    \/ \E x \in Grants : ExtGrant(x)

Spec == Init /\ [][Next]_vars

TypeOK ==
    /\ cp_compute.state \in {"NotFound", "Creating", "Updating"} \cup Terminal
    /\ cp_compute.identity \in Identities
    /\ cp_inflight \in {"none", "core", "ext"}
    /\ cp_bindings \subseteq {Binding(x) : x \in Grants}
    /\ run \in 1..MaxRuns
    /\ g \in 0..3
    /\ Len(cuCalls) <= 2

\* ---- properties ---------------------------------------------------------

\* _get_or_create_compute_target has returned to get_compute
GocReturned == pc \notin GocPcs /\ (pc = "failed" => err.at \notin GocPcs)

\* positions inside one role grant
GrantPcs == {"check", "role_create", "sleep_ok", "verify", "sleep_exists"}

HasEvent(x, op, res) ==
    \E i \in 1..Len(grantLog[x]) :
        grantLog[x][i].op = op /\ grantLog[x][i].res = res

Slept(x, secs) ==
    \E i \in 1..Len(grantLog[x]) :
        grantLog[x][i].op = "sleep" /\ grantLog[x][i].secs = secs

\* grant x raised in this invocation
GrantRaised(x) == pc = "failed" /\ err.at \in GrantPcs /\ g = x

\* C1: when the lookup reports the compute absent, exactly one
\* begin_create_or_update is issued, it is the create with the desired spec
\* (SystemAssigned identity included), and a resource that is returned is in
\* state Creating or Succeeded.
C1_AbsentCreatesOnce ==
    lookup = "NotFound" =>
        /\ cuCalls = (IF pc = "create" THEN <<>> ELSE <<"create">>)
        /\ (pc = "create_result" =>
                cp_compute.identity # "None" /\ cp_inflight = "core")
        /\ (GocReturned => compute_object.state \in {"Creating", "Succeeded"})

C1_Witness ==
    /\ lookup = "NotFound"
    /\ pc = "role_guard"
    /\ cuCalls = <<"create">>
    /\ compute_object.state = "Succeeded"

\* C2: when the lookup finds the compute with a principal_id, no
\* begin_create_or_update is issued and the object returned is the object read.
C2_PresentWithIdentityUntouched ==
    (lookup = "found" /\ HasPrincipal(lookupObj)) =>
        /\ cuCalls = <<>>
        /\ pc \notin GocPcs
        /\ compute_object = lookupObj

C2_Witness ==
    /\ lookup = "found"
    /\ HasPrincipal(lookupObj)
    /\ pc = "done"
    /\ cuCalls = <<>>

\* C3 (as claimed): when the lookup finds the compute without a principal_id,
\* one begin_create_or_update is issued in total, the identity update, whatever
\* its outcome or the outcome of the re-read.
C3_OneUpdateInTotal ==
    (lookup = "found" /\ ~HasPrincipal(lookupObj)) =>
        /\ Len(cuCalls) <= 1
        /\ (pc \notin GocPcs => cuCalls = <<"attach">>)

\* C4 (as claimed): a compute found without identity is returned only with a
\* principal_id, so every returned resource carries one.
C4_ReturnedHasPrincipal ==
    (lookup = "found" /\ ~HasPrincipal(lookupObj) /\ GocReturned) =>
        HasPrincipal(compute_object)

\* C5 (as claimed): when another actor creates the compute between the lookup
\* that saw NotFound and the create call, get_compute does not end in a
\* conflict error.
C5_RaceNeverFatalConflict ==
    raced => ~(pc = "failed" /\ err.kind = "Conflict")

\* C6 (as claimed): when the creation reaches Failed or Canceled, the call ends
\* with an error that names the resource and that state.
C6_TerminalErrorNamesResourceAndState ==
    created \in {"Failed", "Canceled"} =>
        /\ pc = "failed"
        /\ err.state = created
        /\ {"resource", "state"} \subseteq err.text

\* C7 (as claimed): two invocations in sequence of the grant of the same
\* binding issue one create-binding call between them.
C7_OneCreateAcrossTwoCalls ==
    \A x \in Grants : grantsOk[x] = 2 => createCalls[x] <= 1

\* C7 (amended): over the invocations at most one create-binding call returns
\* Ok, an invocation after a successful one never creates cleanly, each
\* invocation issues at most one create call, and it issues it only when its
\* read did not show the binding.
C7_AtMostOneCleanCreate ==
    \A x \in Grants :
        /\ okCreates[x] <= 1
        /\ createCalls[x] <= run
        /\ (HasEvent(x, "create", "Ok") => grantsOk[x] <= 1)
        /\ ((\E r \in {"Ok", "AlreadyExists", "Other"} : HasEvent(x, "create", r))
                => grantLog[x][1] \in {Event("list", "empty", 0),
                                       Event("list", "error", 0)})
        /\ (HasEvent(x, "list", "listed") => Len(grantLog[x]) = 1)

C7_Witness ==
    \E x \in Grants :
        /\ grantsOk[x] = 2
        /\ createCalls[x] = 2
        /\ okCreates[x] = 1
        /\ HasEvent(x, "create", "AlreadyExists")

\* C8: when the read shows the binding, the grant ends at once: no create call
\* and no sleep.
C8_PresentBindingSkips ==
    \A x \in Grants :
        (grantLog[x] # <<>> /\ grantLog[x][1].res = "listed") =>
            /\ grantLog[x] = <<Event("list", "listed", 0)>>
            /\ x \in grantDone
            /\ ~(g = x /\ pc \in GrantPcs \ {"check"})

C8_Witness ==
    \E x \in Grants :
        /\ grantLog[x] = <<Event("list", "listed", 0)>>
        /\ x \in grantDone
        /\ pc = "done"

\* C9: a create-binding call that returns Ok or AlreadyExists never makes the
\* grant raise; the grant raises exactly when the create failed otherwise.
C9_OkAndExistsAreSuccess ==
    \A x \in Grants :
        /\ (HasEvent(x, "create", "Ok") \/ HasEvent(x, "create", "AlreadyExists"))
                => ~GrantRaised(x)
        /\ HasEvent(x, "create", "Other") => GrantRaised(x)
        /\ GrantRaised(x) => HasEvent(x, "create", "Other")

C9_Witness ==
    /\ pc = "done"
    /\ \E x, y \in Grants :
        /\ HasEvent(x, "create", "Ok")
        /\ HasEvent(y, "create", "AlreadyExists")
        /\ {x, y} \subseteq grantDone

\* C10 (as claimed): every grant whose create returned AlreadyExists sleeps 30
\* seconds before it ends.
C10_ExistsWaits30 ==
    \A x \in Grants :
        (HasEvent(x, "create", "AlreadyExists") /\ x \in grantDone) =>
            Slept(x, ExistsWait) /\ ~Slept(x, PropagationWait)

\* number of events of grant x with the given op
CountOp(x, op) ==
    Cardinality({i \in 1..Len(grantLog[x]) : grantLog[x][i].op = op})

\* C11: a create-binding call that returned Ok is followed at once by a sleep
\* of 120 seconds; nothing else of the grant, and nothing after the grant,
\* happens before that sleep.
C11_CleanCreateWaits120 ==
    \A x \in Grants :
        \A i \in 1..Len(grantLog[x]) :
            grantLog[x][i] = Event("create", "Ok", 0) =>
                /\ i = Len(grantLog[x]) => (pc = "sleep_ok" /\ g = x)
                /\ i < Len(grantLog[x]) =>
                        grantLog[x][i + 1] = Event("sleep", "Ok", PropagationWait)
                /\ x \in grantDone => Slept(x, PropagationWait)

C11_Witness ==
    \E x \in Grants :
        /\ HasEvent(x, "create", "Ok")
        /\ Slept(x, PropagationWait)
        /\ x \in grantDone
        /\ pc = "done"

\* C12: after the propagation wait there is exactly one verification read;
\* when it does not show the binding a warning is emitted and the grant ends
\* without raising.
C12_VerificationBestEffort ==
    \A x \in Grants :
        /\ CountOp(x, "verify") <= 1
        /\ (HasEvent(x, "sleep", "Ok") /\ ~(pc = "verify" /\ g = x)) =>
                /\ CountOp(x, "verify") = 1
                /\ x \in grantDone
                /\ ~GrantRaised(x)
        /\ (HasEvent(x, "verify", "empty") \/ HasEvent(x, "verify", "error")) =>
                /\ grantLog[x][Len(grantLog[x])] = Event("warn", "unverified", 0)
                /\ x \in grantDone
        /\ HasEvent(x, "verify", "listed") => CountOp(x, "warn") = 0

C12_Witness ==
    \E x \in Grants :
        /\ HasEvent(x, "verify", "empty")
        /\ HasEvent(x, "warn", "unverified")
        /\ x \in grantDone
        /\ pc = "done"

(***************************************************************************)
(* Part 2: the retry executors, create_with_retry of                       *)
(* deployment/provision_batch_endpoint.py (lines 42-64) and                *)
(* deploy_with_retry of deployment/provision_batch_deployment.py (lines    *)
(* 51-73).  The operation is begin_create_or_update(...).result(); what it *)
(* does at each invocation is chosen by the environment: it returns, it    *)
(* raises ResourceExistsError with some text, or it raises another         *)
(* exception.                                                              *)
(***************************************************************************)

\* ---- bounds
MaxRetries      == 4      \* max_retries ranges over 0..MaxRetries
MaxInitialDelay == 2      \* initial_delay ranges over 1..MaxInitialDelay and 60

\* ---- program constants
DefaultMaxRetries   == 3  \* provision_batch_endpoint.py:42
DefaultInitialDelay == 60 \* provision_batch_endpoint.py:42

RetryFns == {"create_with_retry", "deploy_with_retry"}

\* texts of the exceptions the operation raises
Msgs == {"Operation is already in progress", "Already running method",
         "Resource already exists"}

\* "operation is already in progress" in str(e).lower()
LowerHasInProgress(m) == m = "Operation is already in progress"

\* "Already running method" in str(e)
HasAlreadyRunning(m) == m = "Already running method"

\* what one invocation of the operation can do
Outcomes ==
    {[kind |-> "ok", msg |-> "none"]}
        \cup [kind : {"ResourceExistsError", "Other"}, msg : Msgs]

\* the text test of the `except ResourceExistsError` clause of each executor
IsConflictText(fn, m) ==
    IF fn = "create_with_retry" THEN LowerHasInProgress(m) ELSE HasAlreadyRunning(m)

\* the error is the one the executor retries
IsConflict(fn, o) == o.kind = "ResourceExistsError" /\ IsConflictText(fn, o.msg)

\* mutant: off by one, range(max_retries + 1)
InRangeInclusive(attempt, max) == attempt <= max

\* for attempt in range(max_retries)
InRange(attempt, max) == attempt < max

\* mutant: every ResourceExistsError is retried, whatever its text
ShouldRetryAnyExists(fn, o, attempt, max) ==
    o.kind = "ResourceExistsError" /\ attempt + 1 < max

\* the condition of lines 52 / 61: the conflict text and attempt < max_retries - 1
ShouldRetry(fn, o, attempt, max) ==
    IsConflict(fn, o) /\ attempt + 1 < max

\* mutant: linear backoff
BackoffLinear(delay, attempt) == delay * (attempt + 1)

\* delay = initial_delay * (2 ** attempt), lines 53 / 62
Backoff(delay, attempt) == delay * (2 ^ attempt)

\* get_compute is not running
ComputeIdle ==
    /\ cp_compute = [state |-> "NotFound", identity |-> "None"]
    /\ cp_inflight = "none"
    /\ cp_bindings = {}
    /\ ws_identity = FALSE
    /\ extCount = 0
    /\ run = 1
    /\ pc = "idle"
    /\ g = 0
    /\ lookup = "none"
    /\ lookupObj = NoObj
    /\ compute_object = NoObj
    /\ cuCalls = <<>>
    /\ created = "none"
    /\ raced = FALSE
    /\ grantLog = [x \in Grants |-> <<>>]
    /\ createCalls = [x \in Grants |-> 0]
    /\ okCreates = [x \in Grants |-> 0]
    /\ grantDone = {}
    /\ grantsOk = [x \in Grants |-> 0]
    /\ err = NoErr

RetryInit ==
    /\ r_fn \in RetryFns
    /\ r_max \in 0..MaxRetries
    /\ r_delay \in (1..MaxInitialDelay) \cup {DefaultInitialDelay}
    /\ r_pc = "loop"
    /\ r_attempt = 0
    /\ r_results = <<>>
    /\ r_sleeps = <<>>
    /\ r_out = NoOut

InitRetry == ComputeIdle /\ RetryInit /\ PollIdle /\ PipeIdle /\ DuoIdle

LastResult == r_results[Len(r_results)]

\* lines 44, 64 / 53, 73: the for loop, and the raise that follows it
RetryLoop ==
    /\ r_pc = "loop"
    /\ IF InRange(r_attempt, r_max)
       THEN r_pc' = "call" /\ UNCHANGED r_out
       ELSE /\ r_pc' = "raised"
            /\ r_out' = [kind |-> "Exception", state |-> "none",
                         msg |-> "failed after all retry attempts"]
    /\ UNCHANGED <<r_fn, r_max, r_delay, r_attempt, r_results, r_sleeps>>
    /\ UNCHANGED <<computeVars, pollVars, pipeVars, duoVars>>

\* mutant: a successful attempt is not returned, the loop goes on
RetryCallGoesOn ==
    /\ r_pc = "call"
    /\ \E o \in Outcomes :
        /\ r_results' = Append(r_results, o)
        /\ r_pc' = IF o.kind = "ok" THEN "sleep" ELSE "except"
        /\ UNCHANGED r_out
    /\ UNCHANGED <<r_fn, r_max, r_delay, r_attempt, r_sleeps>>
    /\ UNCHANGED <<computeVars, pollVars, pipeVars, duoVars>>

\* lines 45-50 / 54-59: the operation is invoked; its result is returned
RetryCall ==
    /\ r_pc = "call"
    /\ \E o \in Outcomes :
        /\ r_results' = Append(r_results, o)
        /\ IF o.kind = "ok"
           THEN /\ r_pc' = "returned"
                /\ r_out' = [kind |-> "result", state |-> "none", msg |-> "none"]
           ELSE r_pc' = "except" /\ UNCHANGED r_out
    /\ UNCHANGED <<r_fn, r_max, r_delay, r_attempt, r_sleeps>>
    /\ UNCHANGED <<computeVars, pollVars, pipeVars, duoVars>>

\* mutant: the conflict of the last attempt leaves the loop, and the raise
\* after the loop ends the executor
RetryExceptFallsThrough ==
    /\ r_pc = "except"
    /\ IF ShouldRetry(r_fn, LastResult, r_attempt, r_max)
       THEN r_pc' = "sleep" /\ UNCHANGED r_out
       ELSE /\ r_pc' = "raised"
            /\ r_out' = IF IsConflict(r_fn, LastResult)
                         THEN [kind |-> "Exception", state |-> "none",
                               msg |-> "failed after all retry attempts"]
                         ELSE [kind |-> LastResult.kind, state |-> "none",
                               msg |-> LastResult.msg]
    /\ UNCHANGED <<r_fn, r_max, r_delay, r_attempt, r_results, r_sleeps>>
    /\ UNCHANGED <<computeVars, pollVars, pipeVars, duoVars>>

\* lines 51-62 / 60-71: the except clauses; `raise` re-raises the exception
\* of the operation itself
RetryExcept ==
    /\ r_pc = "except"
    /\ IF ShouldRetry(r_fn, LastResult, r_attempt, r_max)
       THEN r_pc' = "sleep" /\ UNCHANGED r_out
       ELSE /\ r_pc' = "raised"
            /\ r_out' = [kind |-> LastResult.kind, state |-> "none",
                         msg |-> LastResult.msg]
    /\ UNCHANGED <<r_fn, r_max, r_delay, r_attempt, r_results, r_sleeps>>
    /\ UNCHANGED <<computeVars, pollVars, pipeVars, duoVars>>

\* lines 53-56 / 62-65: time.sleep(delay), then the next attempt
RetrySleep ==
    /\ r_pc = "sleep"
    /\ r_sleeps' = Append(r_sleeps, Backoff(r_delay, r_attempt))
    /\ r_attempt' = r_attempt + 1
    /\ r_pc' = "loop"
    /\ UNCHANGED <<r_fn, r_max, r_delay, r_results, r_out>>
    /\ UNCHANGED <<computeVars, pollVars, pipeVars, duoVars>>

NextRetry ==
    \/ RetryLoop
    \/ RetryCall
    \/ RetryExcept
    \/ RetrySleep

SpecRetry == InitRetry /\ [][NextRetry]_vars

\* ---- properties of the retry executors

\* every invocation of the operation so far raised the retried conflict
AllConflicts ==
    \A i \in 1..Len(r_results) : IsConflict(r_fn, r_results[i])

\* the executor ended because the last permitted attempt raised the conflict
Exhausted ==
    /\ r_pc = "raised"
    /\ r_results # <<>>
    /\ IsConflict(r_fn, LastResult)
    /\ Len(r_results) = r_max

\* the exception is one the operation itself raises
IsBare(e) ==
    \E o \in Outcomes : o.kind # "ok" /\ e.kind = o.kind /\ e.msg = o.msg

\* C13 (as claimed): with max_retries = 3 and initial_delay = 60 an operation
\* that always raises the conflict is invoked three times with sleeps of 60
\* and 120 seconds between the invocations, and the executor then raises the
\* exhaustion error, an error of its own and not the error of the operation,
\* without a sleep after the third invocation.
C13_Delays60Then120 ==
    (r_max = DefaultMaxRetries /\ r_delay = DefaultInitialDelay /\ AllConflicts) =>
        /\ Len(r_results) <= 3
        /\ Len(r_sleeps) <= 2
        /\ \A i \in 1..Len(r_sleeps) : r_sleeps[i] = <<60, 120>>[i]
        /\ r_pc # "returned"
        /\ r_pc = "raised" =>
                /\ Len(r_results) = 3
                /\ r_sleeps = <<60, 120>>
                /\ r_out.kind \notin {"ResourceExistsError", "Other"}

\* C14: a conflict at attempt a with a < max_retries - 1 is followed by a sleep
\* of initial_delay * 2^a, so each delay is twice the one before it.
C14_DelaysDouble ==
    /\ \A i \in 1..Len(r_sleeps) :
        /\ r_sleeps[i] = r_delay * (2 ^ (i - 1))
        /\ IsConflict(r_fn, r_results[i])
        /\ i < r_max
        /\ i > 1 => (r_sleeps[i] = 2 * r_sleeps[i - 1] /\ r_sleeps[i] > r_sleeps[i - 1])
    /\ \A i \in 1..Len(r_results) :
        (IsConflict(r_fn, r_results[i]) /\ i < r_max) =>
            \/ i <= Len(r_sleeps)
            \/ (i = Len(r_results) /\ r_pc \in {"except", "sleep"})

C14_Witness ==
    /\ Len(r_sleeps) = 3
    /\ r_sleeps[3] = 4 * r_delay
    /\ r_delay = DefaultInitialDelay

\* C15 (as claimed): the error raised when the last permitted attempt raised
\* the conflict is a wrapper of its own, not the error of the operation.
C15_ExhaustedIsDistinct ==
    Exhausted => ~IsBare(r_out)

\* C16: the operation is never invoked more than max_retries times, and an
\* execution in which no invocation succeeded ends in an error, never in the
\* result.
C16_AttemptsBounded ==
    /\ Len(r_results) <= r_max
    /\ r_attempt <= r_max
    /\ r_pc = "returned" => (r_results # <<>> /\ LastResult.kind = "ok"
                             /\ r_out.kind = "result")
    /\ (r_pc \in {"returned", "raised"}
        /\ \A i \in 1..Len(r_results) : r_results[i].kind # "ok")
            => (r_pc = "raised" /\ r_out.kind \notin {"result", "none"})

C16_Witness ==
    /\ r_pc = "raised"
    /\ r_max = MaxRetries
    /\ Len(r_results) = r_max
    /\ AllConflicts

\* C17: an error of the operation that is not the retried conflict ends the
\* executor at once with that error: no sleep follows it and the operation is
\* not invoked again, whatever attempts remain.
C17_OtherErrorsFailFast ==
    \A i \in 1..Len(r_results) :
        (r_results[i].kind # "ok" /\ ~IsConflict(r_fn, r_results[i])) =>
            /\ i = Len(r_results)
            /\ Len(r_sleeps) = i - 1
            /\ r_pc \in {"except", "raised"}
            /\ r_pc = "raised" =>
                    (r_out.kind = r_results[i].kind /\ r_out.msg = r_results[i].msg)

C17_Witness ==
    /\ r_pc = "raised"
    /\ r_attempt + 1 < r_max
    /\ LastResult.kind = "ResourceExistsError"
    /\ ~IsConflict(r_fn, LastResult)
    /\ Len(r_sleeps) = 1

(***************************************************************************)
(* Part 3: wait_for_endpoint_ready of                                      *)
(* deployment/provision_batch_endpoint.py (lines 15-39); the copy in       *)
(* deployment/provision_batch_deployment.py (lines 24-48) is the same      *)
(* code.  Time is counted in seconds: a sleep takes the poll interval, a   *)
(* read of the endpoint takes 0..MaxLatency seconds.  Other actors change  *)
(* the endpoint while the wait runs.                                       *)
(***************************************************************************)

\* ---- bounds
MaxWaitUnits       == 6   \* max_wait ranges over 0, 15, ..., 15 * MaxWaitUnits
MaxLatency         == 1   \* seconds one read of the endpoint can take
MaxEndpointChanges == 1   \* changes of the endpoint by other actors

\* ---- program constants
PollInterval == 30        \* provision_batch_endpoint.py:32

Pending == {"Creating", "Updating", "Deleting"}

EndpointStates == {"NotFound"} \cup Pending \cup Terminal

MaxWaits == {(PollInterval * k) \div 2 : k \in 0..MaxWaitUnits}

Ready == [kind |-> "ready", state |-> "none", msg |-> "none"]

\* mutant: every exception is taken for a missing endpoint
NotFoundTextAny(m) == TRUE

\* "not found" in str(e).lower() or "ResourceNotFound" in str(e)
NotFoundText(m) == m = "ResourceNotFound"

\* mutant: the loop test with <=
TimeLeftInclusive(elapsed, max) == elapsed <= max

\* while time.time() - start_time < max_wait
TimeLeft(elapsed, max) == elapsed < max

\* what the try block of one iteration raises: the exception of
\* batch_endpoints.get, or the Exception of line 29; NoOut when nothing
PollRaised(fail, st) ==
    IF fail
    THEN [kind |-> "Other", state |-> "none", msg |-> "connection reset"]
    ELSE IF st = "NotFound"
    THEN [kind |-> "ResourceNotFoundError", state |-> "NotFound",
          msg |-> "ResourceNotFound"]
    ELSE IF st \in {"Failed", "Canceled"}
    THEN [kind |-> "Exception", state |-> st, msg |-> "Endpoint in state"]
    ELSE NoOut

PollInit ==
    /\ cp_endpoint \in EndpointStates
    /\ epChanges = 0
    /\ p_pc = "test"
    /\ p_max \in MaxWaits
    /\ p_elapsed = 0
    /\ p_polls = 0
    /\ p_sleeps = 0
    /\ p_last = "none"
    /\ p_stuck = TRUE
    /\ p_out = NoOut

InitPoll == ComputeIdle /\ RetryIdle /\ PollInit /\ PipeIdle /\ DuoIdle

\* mutant: the first read is made before the time is tested
PollTestReadsFirst ==
    /\ p_pc = "test"
    /\ IF p_polls = 0 \/ TimeLeft(p_elapsed, p_max)
       THEN p_pc' = "read" /\ UNCHANGED p_out
       ELSE /\ p_pc' = "raised"
            /\ p_out' = [kind |-> "TimeoutError", state |-> "none",
                         msg |-> "Endpoint not ready"]
    /\ UNCHANGED <<cp_endpoint, epChanges, p_max, p_elapsed, p_polls, p_sleeps,
                   p_last, p_stuck>>
    /\ UNCHANGED <<computeVars, retryVars, pipeVars, duoVars>>

\* lines 20, 39: the loop test, and the TimeoutError after the loop
PollTest ==
    /\ p_pc = "test"
    /\ IF TimeLeft(p_elapsed, p_max)
       THEN p_pc' = "read" /\ UNCHANGED p_out
       ELSE /\ p_pc' = "raised"
            /\ p_out' = [kind |-> "TimeoutError", state |-> "none",
                         msg |-> "Endpoint not ready"]
    /\ UNCHANGED <<cp_endpoint, epChanges, p_max, p_elapsed, p_polls, p_sleeps,
                   p_last, p_stuck>>
    /\ UNCHANGED <<computeVars, retryVars, pipeVars, duoVars>>

\* the seconds one read of the endpoint can take; in a whole provisioning
\* run (Part 4) the time of the reads is left out of the account
Latencies == IF pl_pc = "idle" THEN 0..MaxLatency ELSE {0}

\* mutant: a missing endpoint counts as ready in the first iteration only
PollReadNotFoundOnce ==
    /\ p_pc = "read"
    /\ \E lat \in Latencies, fail \in BOOLEAN :
        LET e == PollRaised(fail, cp_endpoint) IN
        /\ p_elapsed' = p_elapsed + lat
        /\ p_polls' = p_polls + 1
        /\ p_last' = IF fail THEN "error" ELSE cp_endpoint
        /\ p_stuck' = (p_stuck /\ ~fail /\ cp_endpoint = "Creating")
        /\ IF e # NoOut
           THEN IF NotFoundText(e.msg) /\ p_polls = 0
                THEN p_pc' = "returned" /\ p_out' = Ready
                ELSE p_pc' = "raised" /\ p_out' = e
           ELSE IF cp_endpoint = "Succeeded"
                THEN p_pc' = "returned" /\ p_out' = Ready
                ELSE p_pc' = "sleep" /\ UNCHANGED p_out
    /\ UNCHANGED <<cp_endpoint, epChanges, p_max, p_sleeps>>
    /\ UNCHANGED <<computeVars, retryVars, pipeVars, duoVars>>

\* lines 21-37: one read of the endpoint, the tests on its state and the
\* except clause
PollRead ==
    /\ p_pc = "read"
    /\ \E lat \in Latencies, fail \in BOOLEAN :
        LET e == PollRaised(fail, cp_endpoint) IN
        /\ p_elapsed' = p_elapsed + lat
        /\ p_polls' = p_polls + 1
        /\ p_last' = IF fail THEN "error" ELSE cp_endpoint
        /\ p_stuck' = (p_stuck /\ ~fail /\ cp_endpoint = "Creating")
        /\ IF e # NoOut
           THEN IF NotFoundText(e.msg)
                THEN p_pc' = "returned" /\ p_out' = Ready
                ELSE p_pc' = "raised" /\ p_out' = e
           ELSE IF cp_endpoint = "Succeeded"
                THEN p_pc' = "returned" /\ p_out' = Ready
                ELSE p_pc' = "sleep" /\ UNCHANGED p_out
    /\ UNCHANGED <<cp_endpoint, epChanges, p_max, p_sleeps>>
    /\ UNCHANGED <<computeVars, retryVars, pipeVars, duoVars>>

\* line 32: time.sleep(30)
PollSleep ==
    /\ p_pc = "sleep"
    /\ p_elapsed' = p_elapsed + PollInterval
    /\ p_sleeps' = p_sleeps + 1
    /\ p_pc' = "test"
    /\ UNCHANGED <<cp_endpoint, epChanges, p_max, p_polls, p_last, p_stuck, p_out>>
    /\ UNCHANGED <<computeVars, retryVars, pipeVars, duoVars>>

\* another actor creates, updates or deletes the endpoint, or its operation
\* on the endpoint ends
EndpointChange ==
    /\ p_pc \in {"test", "read", "sleep"}
    /\ epChanges < MaxEndpointChanges
    /\ \E st \in EndpointStates \ {cp_endpoint} : cp_endpoint' = st
    /\ epChanges' = epChanges + 1
    /\ UNCHANGED <<p_pc, p_max, p_elapsed, p_polls, p_sleeps, p_last, p_stuck, p_out>>
    /\ UNCHANGED <<computeVars, retryVars, pipeVars, duoVars>>

NextPoll ==
    \/ PollTest
    \/ PollRead
    \/ PollSleep
    \/ EndpointChange

SpecPoll == InitPoll /\ [][NextPoll]_vars

\* ---- properties of the wait

PollEnded == p_pc \in {"returned", "raised"}

\* C18 (as claimed): whatever max_wait is, the wait on an absent endpoint
\* returns ready at once: no sleep, and no read beyond the one that shows
\* the endpoint to be absent.
C18_NotFoundIsReady ==
    (cp_endpoint = "NotFound" /\ epChanges = 0 /\ p_last # "error") =>
        /\ p_sleeps = 0
        /\ p_polls <= 1
        /\ PollEnded => (p_pc = "returned" /\ p_out = Ready)

\* C19: a read of Succeeded returns ready; a read of Failed or Canceled
\* raises at once, without a sleep, an error that carries the state and is
\* never turned into ready; a read of any other state is followed by a sleep
\* of the poll interval and then by the loop test.
C19_IterationOutcomes ==
    /\ p_last = "Succeeded" => (p_pc = "returned" /\ p_out = Ready)
    /\ p_last \in {"Failed", "Canceled"} =>
        /\ p_pc = "raised"
        /\ p_out.kind = "Exception"
        /\ p_out.state = p_last
        /\ p_sleeps = p_polls - 1
    /\ p_last \in Pending =>
        \/ p_pc = "sleep" /\ p_sleeps = p_polls - 1
        \/ p_pc \in {"test", "read"} /\ p_sleeps = p_polls
        \/ p_pc = "raised" /\ p_out.kind = "TimeoutError" /\ p_sleeps = p_polls
    /\ p_elapsed >= PollInterval * p_sleeps
    /\ p_elapsed <= PollInterval * p_sleeps + MaxLatency * p_polls

C19_Witness ==
    /\ p_last \in {"Failed", "Canceled"}
    /\ p_pc = "raised"
    /\ p_polls = 2
    /\ p_sleeps = 1

\* C20: with max_wait = 90 and an endpoint that every read shows in Creating
\* the wait reads the endpoint at most 3 times and ends in TimeoutError.
C20_ThreePollsThenTimeout ==
    (p_max = 90 /\ p_stuck) =>
        /\ p_polls <= 3
        /\ PollEnded => (p_pc = "raised" /\ p_out.kind = "TimeoutError")

C20_Witness ==
    /\ p_max = 90
    /\ p_stuck
    /\ p_polls = 3
    /\ p_pc = "raised"
    /\ p_out.kind = "TimeoutError"

\* C21 (as claimed): the timeout error of the wait names the last
\* provisioning state the wait has read.
C21_TimeoutNamesLastState ==
    (p_pc = "raised" /\ p_out.kind = "TimeoutError" /\ p_polls > 0) =>
        p_out.state = p_last

(***************************************************************************)
(* Further properties of get_compute (Part 1).                             *)
(***************************************************************************)

\* the changes of state the data model allows: NotFound to Creating to a
\* terminal state
ForwardSteps ==
    {<<"NotFound", "Creating">>} \cup {<<"Creating", t>> : t \in Terminal}

\* an accepted update takes an existing resource out of its terminal state
\* until the update ends
UpdateSteps ==
    {<<t, "Updating">> : t \in Terminal} \cup {<<"Updating", t>> : t \in Terminal}

C30_NoGrantWithoutIdentity ==
    /\ (pc \in {"ws_get1", "ws_get2", "done"} \cup GrantPcs
        \/ \E x \in Grants : grantLog[x] # <<>> \/ x \in grantDone)
            => HasPrincipal(compute_object)
    /\ (GocReturned /\ pc # "role_guard" /\ ~HasPrincipal(compute_object)) =>
            /\ pc = "failed"
            /\ err.at = "role_guard"
            /\ err.kind = "ValueError"
            /\ \A x \in Grants : grantLog[x] = <<>> /\ x \notin grantDone

C30_Witness ==
    /\ pc = "failed"
    /\ err.at = "role_guard"
    /\ compute_object.identity = "Pending"
    /\ cuCalls = <<"attach">>

(***************************************************************************)
(* Termination of the retry executor (Part 2).  The steps of the executor  *)
(* itself are taken whenever they can be: the loop test, the except        *)
(* clauses and time.sleep(delay), which ends after delay seconds.          *)
(* poller.result() is called without a timeout (line 48 / 57), so it       *)
(* returns or raises only when the control plane resolves the operation:   *)
(* nothing makes RetryCall happen.                                         *)
(***************************************************************************)
RetryFair ==
    /\ WF_vars(RetryLoop)
    /\ WF_vars(RetryExcept)
    /\ WF_vars(RetrySleep)

SpecRetryLive == InitRetry /\ [][NextRetry]_vars /\ RetryFair

\* C22 (as claimed): every blocking wait is bounded, so the executor ends in
\* its result or in an error even if the control plane never resolves the
\* operation.
C22_EveryInvocationEnds == <>(r_pc \in {"returned", "raised"})

(***************************************************************************)
(* Part 4: one provisioning run.  main of provision_batch_endpoint.py      *)
(* (lines 67-112) waits for the endpoint and creates it; main of           *)
(* provision_batch_deployment.py (lines 76-184) looks the model up, calls  *)
(* get_compute, waits for the endpoint, creates the deployment, reads the  *)
(* endpoint and makes the deployment its default.  The endpoint script     *)
(* runs first and the deployment script runs when it exited with 0.  An    *)
(* exception that leaves main ends the process with a non-zero exit code.  *)
(* Locals of a function are gone when it has returned.  Other actors       *)
(* mutate the endpoint at any time.                                        *)
(***************************************************************************)

\* ---- program constants
DefaultMaxWait == 600     \* provision_batch_endpoint.py:15

computeLocals == <<run, pc, g, lookup, lookupObj, compute_object, cuCalls,
                   created, raced, grantLog, createCalls, okCreates, grantDone,
                   grantsOk, err>>

pollLocals == <<p_pc, p_max, p_elapsed, p_polls, p_sleeps, p_last, p_stuck, p_out>>

\* wait_for_endpoint_ready(ml_client, endpoint_name) is called
StartWait ==
    /\ p_pc' = "test"
    /\ p_max' = DefaultMaxWait
    /\ p_elapsed' = 0
    /\ p_polls' = 0
    /\ p_sleeps' = 0
    /\ p_last' = "none"
    /\ p_stuck' = TRUE
    /\ p_out' = NoOut

\* wait_for_endpoint_ready has returned; what its last read showed is kept
EndWait ==
    /\ p_pc' = "idle"
    /\ p_max' = 0
    /\ p_elapsed' = 0
    /\ p_polls' = 0
    /\ p_sleeps' = 0
    /\ p_stuck' = TRUE
    /\ UNCHANGED <<p_last, p_out>>

\* what the last read of the wait showed is of no use any more
ForgetWait ==
    /\ p_last' = "none"
    /\ p_out' = NoOut
    /\ UNCHANGED <<p_pc, p_max, p_elapsed, p_polls, p_sleeps, p_stuck>>

\* create_with_retry / deploy_with_retry is called with its defaults
StartRetry(fn) ==
    /\ r_fn' = fn
    /\ r_max' = DefaultMaxRetries
    /\ r_delay' = DefaultInitialDelay
    /\ r_pc' = "loop"
    /\ r_attempt' = 0
    /\ r_results' = <<>>
    /\ r_sleeps' = <<>>
    /\ r_out' = NoOut

\* the retry executor has returned or raised
EndRetry ==
    /\ r_fn' = "none"
    /\ r_max' = 0
    /\ r_delay' = 0
    /\ r_pc' = "idle"
    /\ r_attempt' = 0
    /\ r_results' = <<>>
    /\ r_sleeps' = <<>>
    /\ r_out' = NoOut

\* get_compute(...) is called
StartCompute ==
    /\ pc' = "get"
    /\ UNCHANGED <<run, g, lookup, lookupObj, compute_object, cuCalls, created,
                   raced, grantLog, createCalls, okCreates, grantDone, grantsOk,
                   err>>

\* get_compute has returned or raised; main does not keep what it returns
EndCompute ==
    /\ run' = 1
    /\ pc' = "idle"
    /\ g' = 0
    /\ lookup' = "none"
    /\ lookupObj' = NoObj
    /\ compute_object' = NoObj
    /\ cuCalls' = <<>>
    /\ created' = "none"
    /\ raced' = FALSE
    /\ grantLog' = [x \in Grants |-> <<>>]
    /\ createCalls' = [x \in Grants |-> 0]
    /\ okCreates' = [x \in Grants |-> 0]
    /\ grantDone' = {}
    /\ grantsOk' = [x \in Grants |-> 0]
    /\ err' = NoErr

\* an exception leaves main: the process ends with a non-zero exit code
Abort(e) ==
    /\ pl_pc' = "aborted"
    /\ pl_err' = e

Step(name) == pl_log' = Append(pl_log, name)

\* what the operation of the executor is about at each position
Target ==
    IF pl_pc = "ep_create" THEN "endpoint"
    ELSE IF pl_pc = "dep_create" THEN "deployment"
    ELSE "default"

\* what begin_create_or_update(...).result() can do in the current state of
\* the control plane: it succeeds when no other operation runs on the
\* endpoint, and for a deployment or the default only on an endpoint that
\* exists; it reports a conflict while another operation runs; it can fail
\* otherwise at any time
CallOutcomes ==
    {o \in Outcomes :
        /\ o.kind = "ok" =>
                /\ cp_endpoint \notin Pending
                /\ Target # "endpoint" => cp_endpoint # "NotFound"
        /\ o.kind = "ResourceExistsError" => cp_endpoint \in Pending}

PipeInit ==
    /\ cp_endpoint \in EndpointStates
    /\ cp_deployment \in {"NotFound", "Succeeded"}
    /\ cp_default \in {"none", "other"}
    /\ cp_endpoint = "NotFound" => (cp_deployment = "NotFound" /\ cp_default = "none")
    /\ epChanges = 0
    /\ pl_pc = "ep_wait"
    /\ pl_log = <<"wait_endpoint">>
    /\ pl_err = NoOut
    /\ pl_epSeen = 0
    /\ pl_absent = (cp_endpoint = "NotFound" /\ cp_compute.state = "NotFound"
                     /\ cp_bindings = {})
    /\ p_pc = "test"
    /\ p_max = DefaultMaxWait
    /\ p_elapsed = 0
    /\ p_polls = 0
    /\ p_sleeps = 0
    /\ p_last = "none"
    /\ p_stuck = TRUE
    /\ p_out = NoOut

\* the compute and the workspace before the run; get_compute is not running
PipeComputeInit ==
    /\ cp_compute \in {[state |-> "NotFound", identity |-> "None"],
                       [state |-> "Succeeded", identity |-> "None"],
                       [state |-> "Succeeded", identity |-> "Principal"]}
    /\ cp_inflight = "none"
    /\ cp_bindings \in {{}, {Binding(x) : x \in Grants}}
    /\ ws_identity \in BOOLEAN
    /\ extCount = 0
    /\ run = 1
    /\ pc = "idle"
    /\ g = 0
    /\ lookup = "none"
    /\ lookupObj = NoObj
    /\ compute_object = NoObj
    /\ cuCalls = <<>>
    /\ created = "none"
    /\ raced = FALSE
    /\ grantLog = [x \in Grants |-> <<>>]
    /\ createCalls = [x \in Grants |-> 0]
    /\ okCreates = [x \in Grants |-> 0]
    /\ grantDone = {}
    /\ grantsOk = [x \in Grants |-> 0]
    /\ err = NoErr

InitPipe == PipeComputeInit /\ RetryIdle /\ PipeInit /\ DuoIdle

\* mutant: an exception of the executor is swallowed
ReturnedAnyhow(at) == TRUE

\* the callee returned; it did not raise
Returned(at) == at = "returned"

\* mutant: the exception of the wait is swallowed
WaitEndedAnyhow(at) == TRUE

\* wait_for_endpoint_ready returned True
WaitReady(at) == at = "returned"

\* provision_batch_endpoint.py lines 108-112: after the wait,
\* create_with_retry(ml_client, endpoint)
PipeEndpointCreate ==
    /\ pl_pc = "ep_wait"
    /\ p_pc \in {"returned", "raised"}
    /\ IF WaitReady(p_pc)
       THEN /\ EndWait
            /\ StartRetry("create_with_retry")
            /\ pl_pc' = "ep_create"
            /\ Step("create_endpoint")
            /\ UNCHANGED pl_err
       ELSE /\ Abort(p_out)
            /\ EndWait
            /\ UNCHANGED <<retryVars, pl_log>>
    /\ UNCHANGED <<computeVars, cp_endpoint, epChanges, cp_deployment, cp_default,
                   pl_epSeen>>
    /\ UNCHANGED <<pl_absent, duoVars>>

\* lines 45-50 / 54-59 in the run: the operation acts on the control plane
PipeCall ==
    /\ pl_pc \in {"ep_create", "dep_create", "set_default"}
    /\ r_pc = "call"
    /\ \E o \in CallOutcomes :
        /\ r_results' = Append(r_results, o)
        /\ IF o.kind = "ok"
           THEN /\ r_pc' = "returned"
                /\ r_out' = [kind |-> "result", state |-> "none", msg |-> "none"]
                /\ cp_endpoint' = IF Target = "deployment" THEN cp_endpoint
                                  ELSE "Succeeded"
                /\ cp_deployment' = IF Target = "deployment" THEN "Succeeded"
                                    ELSE cp_deployment
                /\ cp_default' = IF Target = "default" THEN "dep" ELSE cp_default
           ELSE /\ r_pc' = "except"
                /\ UNCHANGED <<r_out, cp_endpoint, cp_deployment, cp_default>>
    /\ UNCHANGED <<r_fn, r_max, r_delay, r_attempt, r_sleeps>>
    /\ UNCHANGED <<computeVars, epChanges, pollLocals, pl_pc, pl_log, pl_err,
                   pl_epSeen>>
    /\ UNCHANGED <<pl_absent, duoVars>>

\* the endpoint script ends; after exit code 0 the deployment script starts
PipeEndpointDone ==
    /\ pl_pc = "ep_create"
    /\ r_pc \in {"returned", "raised"}
    /\ IF Returned(r_pc)
       THEN EndRetry /\ pl_pc' = "models" /\ UNCHANGED pl_err
       ELSE Abort(r_out) /\ EndRetry
    /\ ForgetWait
    /\ UNCHANGED <<computeVars, cp_endpoint, epChanges, cp_deployment, cp_default,
                   pl_log, pl_epSeen>>
    /\ UNCHANGED <<pl_absent, duoVars>>

\* provision_batch_deployment.py lines 112-137: the model is looked up, then
\* get_compute is called
PipeModels ==
    /\ pl_pc = "models"
    /\ \E m \in {"found", "none", "error"} :
        IF m = "found"
        THEN /\ StartCompute
             /\ pl_pc' = "compute"
             /\ Step("reconcile_compute")
             /\ UNCHANGED pl_err
        ELSE /\ Abort([kind |-> IF m = "none" THEN "ValueError" ELSE "Other",
                       state |-> "none", msg |-> "model"])
             /\ UNCHANGED <<computeLocals, pl_log>>
    /\ UNCHANGED <<cpVars, retryVars, pollVars, cp_deployment, cp_default,
                   pl_epSeen>>
    /\ UNCHANGED <<pl_absent, duoVars>>

\* mutant: main goes on whatever get_compute did
ComputeOkAnyhow(at) == TRUE

\* get_compute returned; it did not raise
ComputeOk(at) == at = "done"

\* lines 130-174: get_compute ends, then wait_for_endpoint_ready
PipeAfterCompute ==
    /\ pl_pc = "compute"
    /\ pc \in {"done", "failed"}
    /\ IF ComputeOk(pc)
       THEN /\ EndCompute
            /\ StartWait
            /\ pl_pc' = "dep_wait"
            /\ Step("wait_endpoint")
            /\ UNCHANGED pl_err
       ELSE /\ Abort([kind |-> err.kind, state |-> err.state, msg |-> "get_compute"])
            /\ EndCompute
            /\ UNCHANGED <<pollLocals, pl_log>>
    /\ UNCHANGED <<cpVars, retryVars, cp_endpoint, epChanges, cp_deployment,
                   cp_default, pl_epSeen>>
    /\ UNCHANGED <<pl_absent, duoVars>>

\* lines 174-177: after the wait, deploy_with_retry(ml_client, deployment)
PipeDeploy ==
    /\ pl_pc = "dep_wait"
    /\ p_pc \in {"returned", "raised"}
    /\ IF WaitReady(p_pc)
       THEN /\ EndWait
            /\ StartRetry("deploy_with_retry")
            /\ pl_pc' = "dep_create"
            /\ Step("create_deployment")
            /\ UNCHANGED pl_err
       ELSE /\ Abort(p_out)
            /\ EndWait
            /\ UNCHANGED <<retryVars, pl_log>>
    /\ UNCHANGED <<computeVars, cp_endpoint, epChanges, cp_deployment, cp_default,
                   pl_epSeen>>
    /\ UNCHANGED <<pl_absent, duoVars>>

\* what ml_client.batch_endpoints.get raises at line 181; NoOut when nothing
GetRaised(fail, st) ==
    IF fail
    THEN [kind |-> "Other", state |-> "none", msg |-> "connection reset"]
    ELSE IF st = "NotFound"
    THEN [kind |-> "ResourceNotFoundError", state |-> "NotFound",
          msg |-> "ResourceNotFound"]
    ELSE NoOut

\* lines 177-183: the deployment is created; the endpoint is read once, its
\* default is set on that object, deploy_with_retry(ml_client, endpoint)
PipeGetEndpoint ==
    /\ pl_pc = "dep_create"
    /\ r_pc \in {"returned", "raised"}
    /\ IF ~Returned(r_pc)
       THEN /\ Abort(r_out)
            /\ EndRetry
            /\ UNCHANGED <<pl_log, pl_epSeen>>
       ELSE \E fail \in BOOLEAN :
            LET e == GetRaised(fail, cp_endpoint) IN
            IF e # NoOut
            THEN /\ Abort(e)
                 /\ EndRetry
                 /\ UNCHANGED <<pl_log, pl_epSeen>>
            ELSE /\ pl_epSeen' = epChanges
                 /\ StartRetry("deploy_with_retry")
                 /\ pl_pc' = "set_default"
                 /\ Step("switch_default")
                 /\ UNCHANGED pl_err
    /\ ForgetWait
    /\ UNCHANGED <<computeVars, cp_endpoint, epChanges, cp_deployment, cp_default>>
    /\ UNCHANGED <<pl_absent, duoVars>>

\* line 184: main ends, exit code 0
PipeExit ==
    /\ pl_pc = "set_default"
    /\ r_pc \in {"returned", "raised"}
    /\ IF Returned(r_pc)
       THEN EndRetry /\ pl_pc' = "exit0" /\ UNCHANGED pl_err
       ELSE Abort(r_out) /\ EndRetry
    /\ UNCHANGED <<computeVars, pollVars, cp_deployment, cp_default, pl_log,
                   pl_epSeen>>
    /\ UNCHANGED <<pl_absent, duoVars>>

\* the positions at which the run reads or mutates the endpoint; what other
\* actors do to the endpoint while the model is looked up and get_compute
\* runs is seen by the run only afterwards, so it is placed there
EndpointPhases == {"ep_wait", "ep_create", "dep_wait", "dep_create", "set_default"}

\* another actor starts an operation on the endpoint: it creates, updates
\* or deletes it
PipeExtMutate ==
    /\ pl_pc \in EndpointPhases
    /\ epChanges < MaxEndpointChanges
    /\ cp_endpoint \notin Pending
    /\ cp_endpoint' \in IF cp_endpoint = "NotFound" THEN {"Creating"}
                        ELSE {"Updating", "Deleting"}
    /\ epChanges' = epChanges + 1
    /\ UNCHANGED <<computeVars, retryVars, pollLocals, cp_deployment, cp_default,
                   pl_pc, pl_log, pl_err, pl_epSeen>>
    /\ UNCHANGED <<pl_absent, duoVars>>

\* the operation running on the endpoint ends
PipeExtResolve ==
    /\ pl_pc \in EndpointPhases
    /\ cp_endpoint \in Pending
    /\ IF cp_endpoint = "Deleting"
       THEN /\ cp_endpoint' = "NotFound"
            /\ cp_deployment' = "NotFound"
            /\ cp_default' = "none"
       ELSE /\ cp_endpoint' \in Terminal
            /\ UNCHANGED <<cp_deployment, cp_default>>
    /\ UNCHANGED <<computeVars, retryVars, pollLocals, epChanges, pl_pc, pl_log,
                   pl_err, pl_epSeen>>
    /\ UNCHANGED <<pl_absent, duoVars>>

NextPipe ==
    \/ PipeEndpointCreate
    \/ PipeCall
    \/ PipeEndpointDone
    \/ PipeModels
    \/ PipeAfterCompute
    \/ PipeDeploy
    \/ PipeGetEndpoint
    \/ PipeExit
    \/ PipeExtMutate
    \/ PipeExtResolve
    \/ PollTest
    \/ PollRead
    \/ PollSleep
    \/ RetryLoop
    \/ RetryExcept
    \/ RetrySleep
    \/ GetCompute
    \/ AttachIdentity
    \/ AttachResult
    \/ SleepIdentity
    \/ RefreshCompute
    \/ CreateCompute
    \/ CreateResult
    \/ RoleGuard
    \/ WorkspaceGet1
    \/ CheckRole
    \/ RoleCreate
    \/ SleepPropagation
    \/ VerifyRole
    \/ SleepExists
    \/ WorkspaceGet2
    \/ IdentityProvisioned

SpecPipe == InitPipe /\ [][NextPipe]_vars

\* ---- properties of the run

\* the order of the steps as the scripts run them; get_compute reconciles the
\* compute and grants the roles
CodeOrder ==
    <<"wait_endpoint", "create_endpoint", "reconcile_compute", "wait_endpoint",
      "create_deployment", "switch_default">>

\* the place of a step in the order reconcile compute and grant roles, wait
\* for the endpoint, create endpoint, create deployment, switch default
Rank(step) ==
    IF step = "reconcile_compute" THEN 1
    ELSE IF step = "wait_endpoint" THEN 2
    ELSE IF step = "create_endpoint" THEN 3
    ELSE IF step = "create_deployment" THEN 4
    ELSE 5

\* a callee of main has raised
CalleeRaised == pc = "failed" \/ r_pc = "raised" \/ p_pc = "raised"

\* C23 (as claimed): the steps start in the order reconcile compute and grant
\* roles, wait for the endpoint, create endpoint, create deployment, switch
\* default; the deployment create is never issued while the endpoint does
\* not exist.
C23_StepsInClaimedOrder ==
    /\ \A i, j \in 1..Len(pl_log) : i < j => Rank(pl_log[i]) <= Rank(pl_log[j])
    /\ (pl_pc = "dep_create" /\ r_pc = "call") => cp_endpoint # "NotFound"

\* C24: the first create_or_update of the endpoint, and likewise the first
\* create_or_update of the deployment, is issued only after the wait returned
\* ready: the last read of the endpoint showed Succeeded or NotFound.
C24_CreateOnlyAfterReady ==
    pl_pc \in {"ep_create", "dep_create"} =>
        /\ p_out = Ready
        /\ p_last \in {"Succeeded", "NotFound"}

C24_Witness ==
    /\ pl_pc = "ep_create"
    /\ r_results # <<>>
    /\ r_attempt = 0
    /\ p_last = "NotFound"

\* C25: a run that started with compute, role bindings, endpoint and
\* deployment absent, met no other actor and ended with exit code 0 went
\* through every step, and at its end the compute exists with a principal,
\* both roles of the compute identity are bound, the endpoint and the
\* deployment exist and the default deployment of the endpoint is the
\* deployment.
C25_EndToEnd ==
    (pl_pc = "exit0" /\ pl_absent /\ epChanges = 0) =>
        /\ pl_log = CodeOrder
        /\ pl_err = NoOut
        /\ cp_compute = [state |-> "Succeeded", identity |-> "Principal"]
        /\ {Binding(1), Binding(2)} \subseteq cp_bindings
        /\ ws_identity => Binding(3) \in cp_bindings
        /\ cp_endpoint = "Succeeded"
        /\ cp_deployment = "Succeeded"
        /\ cp_default = "dep"

C25_Witness ==
    /\ pl_pc = "exit0"
    /\ pl_absent
    /\ epChanges = 0
    /\ cp_default = "dep"
    /\ cp_deployment = "Succeeded"
    /\ cp_compute.identity = "Principal"

\* C26: once a callee of main has raised, the run does nothing but end with a
\* non-zero exit code: no further step starts, and after the end nothing is
\* changed, so what earlier steps created stays.  The run ends with exit code
\* 0 only after every step, with no error.
C26_FailFast ==
    /\ [](pl_pc = "exit0" => (pl_log = CodeOrder /\ pl_err = NoOut))
    /\ [](pl_pc = "aborted" =>
            /\ pl_err # NoOut
            /\ (epChanges = 0 /\ Len(pl_log) >= 3) => cp_endpoint = "Succeeded")
    /\ [][/\ CalleeRaised => (pl_log' = pl_log /\ pl_pc' \in {pl_pc, "aborted"})
          /\ pl_pc = "aborted" =>
                /\ UNCHANGED <<pl_pc, pl_log, pl_err, pc, r_pc, p_pc>>
                /\ UNCHANGED <<cp_endpoint, cp_deployment, cp_default, cp_bindings>>
                /\ cp_compute'.state = cp_compute.state]_vars

C26_Witness ==
    /\ pl_pc = "aborted"
    /\ pl_log = <<"wait_endpoint", "create_endpoint", "reconcile_compute">>
    /\ pl_err.kind = "ValueError"
    /\ cp_endpoint = "Succeeded"

\* C27 (as claimed): no read that finds its target absent ends the run: the
\* error of a missing resource never leaves main.
C27_NotFoundAbsorbed ==
    pl_pc = "aborted" => pl_err.kind # "ResourceNotFoundError"

\* C29 (as claimed): an attempt of the default-deployment update that follows
\* a backoff sleep submits an endpoint object read after every change other
\* actors have made to the endpoint.
C29_RetryUsesFreshRead ==
    (pl_pc = "set_default" /\ r_pc = "call" /\ r_attempt > 0) =>
        pl_epSeen = epChanges

(***************************************************************************)
(* Further properties of _get_or_create_compute_target and of the grants   *)
(* (Part 1).                                                               *)
(***************************************************************************)

\* a begin_create_or_update with the full desired spec was issued (line 185)
CreateIssued == \E i \in 1..Len(cuCalls) : cuCalls[i] = "create"

\* C31 (as claimed): an execution of _get_or_create_compute_target issues at
\* most one begin_create_or_update, and the create with the full desired spec
\* only when the lookup reported the compute absent; a failure of the identity
\* update or of the re-read is propagated.
C31_CreateOnlyWhenAbsent ==
    /\ Len(cuCalls) <= 1
    /\ CreateIssued => lookup = "NotFound"

\* the read of grant x failed: `az role assignment list` raised and
\* _check_role_assignment answered False (lines 38-40)
ReadFailed(x) == grantLog[x] # <<>> /\ grantLog[x][1] = Event("list", "error", 0)

\* C33 (as claimed): a failed read of the binding is never fatal and is
\* treated like an absent binding: the grant goes on to the create call; when
\* that create returns AlreadyExists the grant sleeps 30 seconds and ends
\* without an error.
C33_ReadFailureIsAbsent ==
    \A x \in Grants :
        ReadFailed(x) =>
            /\ Len(grantLog[x]) = 1 => (g = x /\ pc = "role_create")
            /\ Len(grantLog[x]) >= 2 => grantLog[x][2].op = "create"
            /\ HasEvent(x, "create", "AlreadyExists") =>
                    /\ ~GrantRaised(x)
                    /\ x \in grantDone => Slept(x, ExistsWait)
                    /\ x \notin grantDone => (g = x /\ pc = "sleep_exists")

(***************************************************************************)
(* Further properties of the retry executors (Part 2).                     *)
(***************************************************************************)

RECURSIVE SumTo(_, _)
\* the seconds of the first n sleeps of the executor
SumTo(sleeps, n) == IF n = 0 THEN 0 ELSE sleeps[n] + SumTo(sleeps, n - 1)

\* seconds the executor has slept so far
TotalSleep == SumTo(r_sleeps, Len(r_sleeps))

\* C34: an attempt that completes without raising ends the executor with its
\* result: it is the last invocation of the operation, no sleep follows it,
\* and when it is attempt a (0-based) the executor has slept a times,
\* initial_delay * (2^a - 1) seconds in total.
C34_SuccessReturnsAtOnce ==
    \A i \in 1..Len(r_results) :
        r_results[i].kind = "ok" =>
            /\ i = Len(r_results)
            /\ r_pc = "returned"
            /\ r_out.kind = "result"
            /\ r_attempt = i - 1
            /\ Len(r_sleeps) = i - 1
            /\ TotalSleep = r_delay * ((2 ^ (i - 1)) - 1)

C34_Witness ==
    /\ r_pc = "returned"
    /\ r_attempt = 3
    /\ r_delay = DefaultInitialDelay
    /\ TotalSleep = 420
    /\ LastResult.kind = "ok"

\* C35: with max_retries >= 1 the operation is invoked at least once and the
\* executor ends with the result of the operation or by re-raising the error
\* the operation raised; the error of the raise after the loop ends the
\* executor only when max_retries is 0, and then the operation is never
\* invoked.
C35_EndsWithResultOrOwnError ==
    /\ (r_max >= 1 /\ r_pc \in {"returned", "raised"}) =>
            /\ Len(r_results) >= 1
            /\ r_pc = "returned" =>
                    (LastResult.kind = "ok" /\ r_out.kind = "result")
            /\ r_pc = "raised" =>
                    /\ LastResult.kind # "ok"
                    /\ r_out.kind = LastResult.kind
                    /\ r_out.msg = LastResult.msg
    /\ r_out.msg = "failed after all retry attempts" =>
            (r_max = 0 /\ r_results = <<>> /\ r_pc = "raised")
    /\ r_max = 0 =>
            /\ r_results = <<>>
            /\ r_sleeps = <<>>
            /\ r_pc \in {"loop", "raised"}
            /\ r_pc = "raised" => r_out.kind = "Exception"

C35_Witness ==
    /\ r_pc = "raised"
    /\ r_max = 1
    /\ Len(r_results) = 1
    /\ IsConflict(r_fn, LastResult)
    /\ r_out.kind = "ResourceExistsError"

(***************************************************************************)
(* Further properties of wait_for_endpoint_ready (Part 3).                 *)
(***************************************************************************)

\* every read so far took no time: the wait was blocked in its sleeps only
InstantReads == p_elapsed = PollInterval * p_sleeps

\* ceil(max_wait / 30)
MaxReads(max) == (max + PollInterval - 1) \div PollInterval

\* C37: no read of the endpoint starts once the elapsed time has reached
\* max_wait; when the reads take no time there are at most ceil(max_wait / 30)
\* of them and the wait is blocked for less than max_wait + 30 seconds; with
\* max_wait = 0 the wait raises TimeoutError without a read.
C37_NoReadAfterDeadline ==
    /\ p_pc = "read" => p_elapsed < p_max
    /\ InstantReads =>
            /\ p_polls <= MaxReads(p_max)
            /\ p_elapsed < p_max + PollInterval
    /\ p_max = 0 =>
            /\ p_polls = 0
            /\ p_sleeps = 0
            /\ p_pc \in {"test", "raised"}
            /\ p_pc = "raised" => p_out.kind = "TimeoutError"

C37_Witness ==
    /\ p_max = 75
    /\ InstantReads
    /\ p_polls = 3
    /\ p_elapsed = 90
    /\ p_pc = "raised"
    /\ p_out.kind = "TimeoutError"

\* main is in a call of wait_for_endpoint_ready
InWait == pl_pc \in {"ep_wait", "dep_wait"}

\* the create/update step that follows the wait in each script
StepAfterWait == IF pl_pc = "ep_wait" THEN "ep_create" ELSE "dep_create"

\* C38: a read that finds the endpoint missing ends the wait with ready in
\* whatever iteration it happens, also after reads that showed the endpoint
\* in a non-terminal state and a deletion by another actor; the caller then
\* goes on to its create/update step.
C38_NotFoundReadyAtAnyIteration ==
    /\ []((InWait /\ p_last = "NotFound") => (p_pc = "returned" /\ p_out = Ready))
    /\ [][(InWait /\ p_pc = "returned" /\ p_last = "NotFound" /\ pl_pc' # pl_pc)
            => (pl_pc' = StepAfterWait /\ r_pc' = "loop" /\ pl_err' = NoOut)]_vars

C38_Witness ==
    /\ pl_pc = "dep_wait"
    /\ p_pc = "returned"
    /\ p_out = Ready
    /\ p_last = "NotFound"
    /\ p_polls >= 2
    /\ p_sleeps = p_polls - 1
    /\ epChanges = 1

RECURSIVE RunFrom(_, _, _, _, _, _)
\* the loop of executor fn (lines 44-64 / 53-73) from iteration attempt on,
\* the i-th invocation of the operation doing outs[i]: the number of
\* invocations, the sleeps and the outcome; the outcome is NoOut when the
\* executor needs an invocation more than outs has
RunFrom(fn, max, delay, outs, attempt, sleeps) ==
    IF ~InRange(attempt, max)
    THEN [attempts |-> attempt, sleeps |-> sleeps,
          out |-> [kind |-> "Exception", state |-> "none",
                   msg |-> "failed after all retry attempts"]]
    ELSE IF attempt + 1 > Len(outs)
    THEN [attempts |-> attempt, sleeps |-> sleeps, out |-> NoOut]
    ELSE LET o == outs[attempt + 1] IN
         IF o.kind = "ok"
         THEN [attempts |-> attempt + 1, sleeps |-> sleeps,
               out |-> [kind |-> "result", state |-> "none", msg |-> "none"]]
         ELSE IF ShouldRetry(fn, o, attempt, max)
         THEN RunFrom(fn, max, delay, outs, attempt + 1,
                      Append(sleeps, Backoff(delay, attempt)))
         ELSE [attempts |-> attempt + 1, sleeps |-> sleeps,
               out |-> [kind |-> o.kind, state |-> "none", msg |-> o.msg]]

\* executor fn called with max_retries = max and initial_delay = delay
RunExecutor(fn, max, delay, outs) == RunFrom(fn, max, delay, outs, 0, <<>>)

\* the executor of the other script
OtherFn == CHOOSE fn \in RetryFns : fn # r_fn

\* the invocation has ended as RunExecutor computes it
RunAgrees ==
    r_pc \in {"returned", "raised"} =>
        RunExecutor(r_fn, r_max, r_delay, r_results) =
            [attempts |-> Len(r_results), sleeps |-> r_sleeps, out |-> r_out]

\* C36 (as claimed): the two executors are equivalent: when one of them has
\* ended, the other one, called with the same max_retries and initial_delay
\* and meeting the same outcomes of the operation, makes the same number of
\* attempts, sleeps the same delays and ends in the same outcome.
C36_ExecutorsEquivalent ==
    r_pc \in {"returned", "raised"} =>
        RunExecutor(OtherFn, r_max, r_delay, r_results) =
            [attempts |-> Len(r_results), sleeps |-> r_sleeps, out |-> r_out]

(***************************************************************************)
(* Part 5: two pipeline invocations run the grant of the same binding      *)
(* (principal, role, scope) at the same time: each runs lines 62-95 of     *)
(* _assign_storage_role, and the calls of the two interleave in any order. *)
(* The control plane stores at most one assignment per tuple: a create for *)
(* a tuple that has one fails with RoleAssignmentExists.  A list can       *)
(* answer with an empty list for an assignment that is not yet visible,    *)
(* or fail.                                                                *)
(***************************************************************************)

GrantRaceInit ==
    /\ cp_assignments \in {0, 1}
    /\ cg_pc = [i \in Invocations |-> "check"]
    /\ cg_log = [i \in Invocations |-> <<>>]

InitGrantRace ==
    ComputeIdle /\ RetryIdle /\ PollIdle /\ PipeIdle /\ GrantRaceInit /\ DeployRaceIdle

\* what `az role assignment list` answers for the tuple
ConcListOutcomes ==
    (IF cp_assignments > 0 THEN {"listed"} ELSE {}) \cup {"empty", "error"}

\* invocation i is at position at and has logged event e
ConcStep(i, at, e) ==
    /\ cg_pc' = [cg_pc EXCEPT ![i] = at]
    /\ cg_log' = [cg_log EXCEPT ![i] = Append(@, e)]

\* lines 62-64: read the binding, skip the create when it is present
ConcCheckRole(i) ==
    /\ cg_pc[i] = "check"
    /\ \E r \in ConcListOutcomes :
        ConcStep(i, IF CheckRoleAssignment(r) THEN "done" ELSE "role_create",
                 Event("list", r, 0))
    /\ UNCHANGED cp_assignments
    /\ UNCHANGED <<computeVars, retryVars, pollVars, pipeVars, deployRaceVars>>

\* mutant: RoleAssignmentExists is raised like any other failure
ConcRoleCreateExistsFatal(i) ==
    /\ cg_pc[i] = "role_create"
    /\ \/ /\ cp_assignments = 0
          /\ cp_assignments' = cp_assignments + 1
          /\ ConcStep(i, "sleep_ok", Event("create", "Ok", 0))
       \/ /\ cp_assignments > 0
          /\ ConcStep(i, "failed", Event("create", "AlreadyExists", 0))
          /\ UNCHANGED cp_assignments
       \/ /\ ConcStep(i, "failed", Event("create", "Other", 0))
          /\ UNCHANGED cp_assignments
    /\ UNCHANGED <<computeVars, retryVars, pollVars, pipeVars, deployRaceVars>>

\* lines 65-95: az role assignment create; RoleAssignmentExists is accepted,
\* any other failure is raised
ConcRoleCreate(i) ==
    /\ cg_pc[i] = "role_create"
    /\ \/ /\ cp_assignments = 0
          /\ cp_assignments' = cp_assignments + 1
          /\ ConcStep(i, "sleep_ok", Event("create", "Ok", 0))
       \/ /\ cp_assignments > 0
          /\ ConcStep(i, "sleep_exists", Event("create", "AlreadyExists", 0))
          /\ UNCHANGED cp_assignments
       \/ /\ ConcStep(i, "failed", Event("create", "Other", 0))
          /\ UNCHANGED cp_assignments
    /\ UNCHANGED <<computeVars, retryVars, pollVars, pipeVars, deployRaceVars>>

\* line 82: time.sleep(120)
ConcSleepPropagation(i) ==
    /\ cg_pc[i] = "sleep_ok"
    /\ ConcStep(i, "verify", Event("sleep", "none", PropagationWait))
    /\ UNCHANGED cp_assignments
    /\ UNCHANGED <<computeVars, retryVars, pollVars, pipeVars, deployRaceVars>>

\* lines 84-87: the read after the wait; a warning when it shows nothing
ConcVerifyRole(i) ==
    /\ cg_pc[i] = "verify"
    /\ \E r \in ConcListOutcomes : ConcStep(i, "done", Event("list", r, 0))
    /\ UNCHANGED cp_assignments
    /\ UNCHANGED <<computeVars, retryVars, pollVars, pipeVars, deployRaceVars>>

\* line 92: time.sleep(30)
ConcSleepExists(i) ==
    /\ cg_pc[i] = "sleep_exists"
    /\ ConcStep(i, "done", Event("sleep", "none", ExistsWait))
    /\ UNCHANGED cp_assignments
    /\ UNCHANGED <<computeVars, retryVars, pollVars, pipeVars, deployRaceVars>>

NextGrantRace ==
    \/ \E i \in Invocations : ConcCheckRole(i)
    \/ \E i \in Invocations : ConcRoleCreate(i)
    \/ \E i \in Invocations : ConcSleepPropagation(i)
    \/ \E i \in Invocations : ConcVerifyRole(i)
    \/ \E i \in Invocations : ConcSleepExists(i)

SpecGrantRace == InitGrantRace /\ [][NextGrantRace]_vars

\* ---- properties of the concurrent grants

\* invocation i made a call op that answered res
ConcHas(i, op, res) ==
    \E n \in 1..Len(cg_log[i]) : cg_log[i][n].op = op /\ cg_log[i][n].res = res

\* C32: whatever the order of the check and create calls of two invocations
\* that grant the same binding, an invocation whose create answers Ok or
\* AlreadyExists, or which skips the create, ends in success (an invocation
\* raises only when its create failed for another reason); at most one of the
\* creates answers Ok; and once an invocation has ended in success exactly
\* one assignment of the tuple is stored.
C32_ConcurrentGrantsConverge ==
    /\ \A i \in Invocations :
        /\ cg_pc[i] = "failed" => ConcHas(i, "create", "Other")
        /\ (ConcHas(i, "create", "Ok") \/ ConcHas(i, "create", "AlreadyExists"))
                => cg_pc[i] \in {"sleep_ok", "verify", "sleep_exists", "done"}
        /\ cg_pc[i] = "done" =>
                \/ ConcHas(i, "create", "Ok")
                \/ ConcHas(i, "create", "AlreadyExists")
                \/ cg_log[i] = <<Event("list", "listed", 0)>>
    /\ Cardinality({i \in Invocations : ConcHas(i, "create", "Ok")}) <= 1
    /\ (\E i \in Invocations : cg_pc[i] = "done") => cp_assignments = 1
    /\ cp_assignments <= 1

C32_Witness ==
    /\ cg_pc[1] = "sleep_exists"
    /\ cg_pc[2] = "sleep_ok"
    /\ cg_log[1][1] = Event("list", "empty", 0)
    /\ cg_log[2][1] = Event("list", "empty", 0)
    /\ ConcHas(1, "create", "AlreadyExists")
    /\ ConcHas(2, "create", "Ok")
    /\ cp_assignments = 1

(***************************************************************************)
(* Part 6: two invocations of provision_batch_deployment.py deploy         *)
(* different deployment names to the same endpoint at the same time.       *)
(* Each runs lines 174-184 of main: wait_for_endpoint_ready,               *)
(* deploy_with_retry(deployment), the read of the endpoint,                *)
(* deploy_with_retry(endpoint).  begin_create_or_update starts an          *)
(* operation of the control plane and .result() returns when it has ended. *)
(* While an operation of the other invocation runs, the control plane may  *)
(* accept a further one or reject it with a conflict.  The endpoint shows  *)
(* Updating while an update of it runs.                                    *)
(***************************************************************************)

\* deployment.name of each invocation
DepName(i) == IF i = 1 THEN "depA" ELSE "depB"

DeployRaceInit ==
    /\ cp_deployments \in {{}, {"old"}}
    /\ cp_defaultName \in {"none"} \cup cp_deployments
    /\ cp_ops = {}
    /\ cd_pc = [i \in Invocations |-> "wait"]
    /\ cd_attempt = [i \in Invocations |-> 0]
    /\ cd_polls = [i \in Invocations |-> 0]
    /\ cd_created = [i \in Invocations |-> FALSE]

InitDeployRace ==
    ComputeIdle /\ RetryIdle /\ PollIdle /\ PipeIdle /\ GrantRaceIdle /\ DeployRaceInit

\* provisioning state of the endpoint as a read shows it
EndpointShown ==
    IF \E op \in cp_ops : op.target = "endpoint" THEN "Updating" ELSE "Succeeded"

\* what the executor of invocation i submits at its position
DeployTarget(i) == IF cd_pc[i] \in {"dep_call", "dep_result"} THEN "deployment"
                   ELSE "endpoint"

\* invocation i moves to position at
DeployGoto(i, at) == cd_pc' = [cd_pc EXCEPT ![i] = at]

\* an exception leaves main of invocation i
DeployFail(i) ==
    /\ DeployGoto(i, "failed")
    /\ cd_attempt' = [cd_attempt EXCEPT ![i] = 0]
    /\ cd_polls' = [cd_polls EXCEPT ![i] = 0]

\* line 174, wait_for_endpoint_ready (lines 24-48): one iteration of the
\* loop, or the TimeoutError after it
DeployWait(i) ==
    /\ cd_pc[i] = "wait"
    /\ IF ~TimeLeft(PollInterval * cd_polls[i], DefaultMaxWait)
       THEN DeployFail(i)
       ELSE \/ /\ EndpointShown = "Succeeded"
               /\ DeployGoto(i, "dep_call")
               /\ cd_polls' = [cd_polls EXCEPT ![i] = 0]
               /\ UNCHANGED cd_attempt
            \/ /\ EndpointShown = "Updating"
               /\ cd_polls' = [cd_polls EXCEPT ![i] = @ + 1]
               /\ UNCHANGED <<cd_pc, cd_attempt>>
            \/ DeployFail(i)
    /\ UNCHANGED <<cp_deployments, cp_defaultName, cp_ops, cd_created>>
    /\ UNCHANGED <<computeVars, retryVars, pollVars, pipeVars, grantRaceVars>>

\* lines 56, 60-71 of deploy_with_retry: begin_create_or_update is accepted,
\* or rejected with a conflict, which is retried after the backoff sleep
\* when its text is the retried one and attempts remain, or it fails
DeployCall(i) ==
    /\ cd_pc[i] \in {"dep_call", "set_call"}
    /\ \/ /\ cp_ops' = cp_ops \cup {[by |-> i, target |-> DeployTarget(i)]}
          /\ DeployGoto(i, IF cd_pc[i] = "dep_call" THEN "dep_result"
                           ELSE "set_result")
          /\ UNCHANGED <<cd_attempt, cd_polls>>
       \/ /\ cp_ops # {}
          /\ \E m \in Msgs :
                IF ShouldRetry("deploy_with_retry",
                               [kind |-> "ResourceExistsError", msg |-> m],
                               cd_attempt[i], DefaultMaxRetries)
                THEN /\ cd_attempt' = [cd_attempt EXCEPT ![i] = @ + 1]
                     /\ UNCHANGED <<cd_pc, cd_polls>>
                ELSE DeployFail(i)
          /\ UNCHANGED cp_ops
       \/ /\ DeployFail(i)
          /\ UNCHANGED cp_ops
    /\ UNCHANGED <<cp_deployments, cp_defaultName, cd_created>>
    /\ UNCHANGED <<computeVars, retryVars, pollVars, pipeVars, grantRaceVars>>

\* mutant: the exception of deploy_with_retry(deployment) is swallowed
DeployResultUnchecked(i) ==
    /\ cd_pc[i] \in {"dep_result", "set_result"}
    /\ cp_ops' = cp_ops \ {[by |-> i, target |-> DeployTarget(i)]}
    /\ \E ok \in BOOLEAN :
        IF cd_pc[i] = "dep_result"
        THEN /\ cp_deployments' = IF ok THEN cp_deployments \cup {DepName(i)}
                                  ELSE cp_deployments
             /\ cd_created' = [cd_created EXCEPT ![i] = ok]
             /\ DeployGoto(i, "get")
             /\ cd_attempt' = [cd_attempt EXCEPT ![i] = 0]
             /\ UNCHANGED <<cp_defaultName, cd_polls>>
        ELSE IF ok
        THEN /\ cp_defaultName' = DepName(i)
             /\ DeployGoto(i, "exit0")
             /\ cd_attempt' = [cd_attempt EXCEPT ![i] = 0]
             /\ UNCHANGED <<cp_deployments, cd_polls, cd_created>>
        ELSE /\ DeployFail(i)
             /\ UNCHANGED <<cp_deployments, cp_defaultName, cd_created>>
    /\ UNCHANGED <<computeVars, retryVars, pollVars, pipeVars, grantRaceVars>>

\* lines 57-59 of deploy_with_retry, lines 177 and 183-184 of main: the
\* operation ends and .result() returns, or raises when it did not succeed
DeployResult(i) ==
    /\ cd_pc[i] \in {"dep_result", "set_result"}
    /\ cp_ops' = cp_ops \ {[by |-> i, target |-> DeployTarget(i)]}
    /\ \E ok \in BOOLEAN :
        IF ~ok
        THEN /\ DeployFail(i)
             /\ UNCHANGED <<cp_deployments, cp_defaultName, cd_created>>
        ELSE IF cd_pc[i] = "dep_result"
        THEN /\ cp_deployments' = cp_deployments \cup {DepName(i)}
             /\ cd_created' = [cd_created EXCEPT ![i] = TRUE]
             /\ DeployGoto(i, "get")
             /\ cd_attempt' = [cd_attempt EXCEPT ![i] = 0]
             /\ UNCHANGED <<cp_defaultName, cd_polls>>
        ELSE /\ cp_defaultName' = DepName(i)
             /\ DeployGoto(i, "exit0")
             /\ cd_attempt' = [cd_attempt EXCEPT ![i] = 0]
             /\ UNCHANGED <<cp_deployments, cd_polls, cd_created>>
    /\ UNCHANGED <<computeVars, retryVars, pollVars, pipeVars, grantRaceVars>>

\* lines 181-182: the endpoint is read and its default is set on the object
DeployGetEndpoint(i) ==
    /\ cd_pc[i] = "get"
    /\ \/ DeployGoto(i, "set_call") /\ UNCHANGED <<cd_attempt, cd_polls>>
       \/ DeployFail(i)
    /\ UNCHANGED <<cp_deployments, cp_defaultName, cp_ops, cd_created>>
    /\ UNCHANGED <<computeVars, retryVars, pollVars, pipeVars, grantRaceVars>>

NextDeployRace ==
    \/ \E i \in Invocations : DeployWait(i)
    \/ \E i \in Invocations : DeployCall(i)
    \/ \E i \in Invocations : DeployResult(i)
    \/ \E i \in Invocations : DeployGetEndpoint(i)

SpecDeployRace == InitDeployRace /\ [][NextDeployRace]_vars

\* ---- properties of the concurrent deployments

\* invocation i has issued the update of the default deployment
UpdateIssued(i) ==
    \/ cd_pc[i] \in {"set_result", "exit0"}
    \/ [by |-> i, target |-> "endpoint"] \in cp_ops

\* C39: when two invocations that deploy different deployment names to one
\* endpoint have both ended with exit code 0, the default deployment of the
\* endpoint is one of the two names and names a deployment that exists; an
\* invocation issues the update of the default only after its own
\* deploy_with_retry(deployment) has returned.
C39_DefaultIsOneOfTheTwo ==
    /\ (\A i \in Invocations : cd_pc[i] = "exit0") =>
            /\ cp_defaultName \in {DepName(i) : i \in Invocations}
            /\ cp_defaultName \in cp_deployments
            /\ {DepName(i) : i \in Invocations} \subseteq cp_deployments
    /\ \A i \in Invocations :
            (cd_pc[i] \in {"get", "set_call"} \/ UpdateIssued(i)) =>
                (cd_created[i] /\ DepName(i) \in cp_deployments)

C39_Witness ==
    /\ cd_pc[1] = "exit0"
    /\ cd_pc[2] = "exit0"
    /\ cp_defaultName = "depA"
    /\ cp_deployments = {"old", "depA", "depB"}

====
